---- MODULE Spec2Model ----
(***************************************************************************)
(* Energy benchmarking tool (juliusknl/energy-analytics-app).              *)
(*                                                                         *)
(* Two groups of programs are modelled:                                    *)
(*   - the benchmark engine: GermanEnergyBenchmarker (benchmark_calculator)*)
(*     and the working_mvp dashboard, which select a peer group from the   *)
(*     loaded dataset and compute percentiles and savings (Spec);          *)
(*   - the dataset generators and their external statistics fetch          *)
(*     (fetch_real_data, fetch_data_expanded, data_fetcher) (SpecFetch).   *)
(*                                                                         *)
(* Python floats are modelled as exact rationals <<num, den>> with den > 0 *)
(* in lowest terms; <<0, 0>> is NaN (the mean or quantile of an empty      *)
(* column).                                                                *)
(***************************************************************************)
EXTENDS Integers, Sequences, FiniteSets, TLC

VARIABLES
    program,     \* which program of the repository is running
    df,          \* the loaded dataset: a sequence of company rows
    metadata,    \* GermanEnergyBenchmarker.metadata (a dict, keys as DOMAIN)
    pc,          \* "loaded" after construction, "done" after a benchmark call
    profile,     \* the company profile of the last call
    peers,       \* the peer group of the last call
    benchmarks,  \* the benchmark dict of the last call
    insights,    \* the insight list of the last call
    script,      \* generator script being run
    fpc,         \* position of the generator run
    response,    \* outcome of requests.get
    energy_data, \* dict returned by the statistics fetch
    sector_data, \* real_sector_data built by create_real_benchmark_dataset
    companies,   \* the generated rows: rows per sector and the last row appended
    files,       \* the files of the working directory
    clock,       \* seconds of the local clock and the number of generator runs
    loaded,      \* outcome of GermanEnergyBenchmarker() without data_file
    tables,      \* the constant tables of real_german_data.py
    imported,    \* outcome of importing real_german_data
    call,        \* the last call of a real_german_data function
    result,      \* what that call returned or raised
    session,     \* st.session_state of streamlit_app.py
    widgets,     \* the values of the sidebar inputs
    screen       \* what the main content area shows after the script run

benchVars == <<program, df, metadata, pc, profile, peers, benchmarks, insights>>
fetchVars == <<script, fpc, response, energy_data, sector_data, companies>>
fileVars == <<files, clock, loaded>>
refVars == <<tables, imported, call, result>>
appVars == <<session, widgets, screen>>
vars == <<program, df, metadata, pc, profile, peers, benchmarks, insights,
          script, fpc, response, energy_data, sector_data, companies,
          files, clock, loaded, tables, imported, call, result,
          session, widgets, screen>>

(***************************************************************************)
(* Bounds                                                                  *)
(***************************************************************************)
MaxCompanies == 8

(***************************************************************************)
(* Float arithmetic as exact rationals                                     *)
(***************************************************************************)
RECURSIVE GCD(_, _)
GCD(a, b) == IF b = 0 THEN a ELSE GCD(b, a % b)

Abs(x) == IF x < 0 THEN -x ELSE x

NaN == <<0, 0>>

IsNaN(a) == a[2] = 0

Rat(n, d) ==
    IF d = 0 THEN NaN
    ELSE LET g == GCD(Abs(n), Abs(d))
             s == IF d < 0 THEN -1 ELSE 1
         IN <<s * (n \div g), s * (d \div g)>>

Zero == <<0, 1>>

RAdd(a, b) ==
    IF IsNaN(a) \/ IsNaN(b) THEN NaN
    ELSE LET g == GCD(a[2], b[2])
         IN Rat(a[1] * (b[2] \div g) + b[1] * (a[2] \div g), (a[2] \div g) * b[2])

RNeg(a) == <<-a[1], a[2]>>

RSub(a, b) == RAdd(a, RNeg(b))

RMul(a, b) ==
    IF IsNaN(a) \/ IsNaN(b) THEN NaN
    ELSE LET g1 == GCD(Abs(a[1]), b[2])
             g2 == GCD(Abs(b[1]), a[2])
         IN Rat((a[1] \div g1) * (b[1] \div g2), (a[2] \div g2) * (b[2] \div g1))

\* the divisors of the program (employees, peer medians, the national
\* average) are positive or NaN
RDiv(a, b) ==
    IF IsNaN(a) \/ IsNaN(b) \/ b[1] = 0 THEN NaN
    ELSE RMul(a, Rat(b[2], b[1]))

\* every comparison with NaN is false
RLt(a, b) == ~IsNaN(a) /\ ~IsNaN(b) /\ a[1] * b[2] < b[1] * a[2]

RLe(a, b) == ~IsNaN(a) /\ ~IsNaN(b) /\ a[1] * b[2] <= b[1] * a[2]

RGt(a, b) == RLt(b, a)

(***************************************************************************)
(* pandas column operations                                                *)
(***************************************************************************)
Column(frame, name) == [i \in 1..Len(frame) |-> frame[i][name]]

\* faulty variant of MaskMean: (mask).sum(), the count instead of the fraction
MaskSum(mask) ==
    IF Len(mask) = 0 THEN NaN
    ELSE Rat(Cardinality({i \in 1..Len(mask) : mask[i]}), 1)

\* (mask).mean(): the fraction of true entries; NaN for an empty column
MaskMean(mask) ==
    IF Len(mask) = 0 THEN NaN
    ELSE Rat(Cardinality({i \in 1..Len(mask) : mask[i]}), Len(mask))

\* the column in ascending order (quantile and median work on sorted values)
Sorted(col) == SortSeq(col, RLt)

\* Series.quantile(qn / qd) with linear interpolation
Quantile(col, qn, qd) ==
    IF Len(col) = 0 THEN NaN
    ELSE LET s    == Sorted(col)
             h    == (Len(col) - 1) * qn
             lo   == h \div qd
             frac == Rat(h % qd, qd)
         IN IF h % qd = 0 THEN s[lo + 1]
            ELSE RAdd(s[lo + 1], RMul(RSub(s[lo + 2], s[lo + 1]), frac))

\* Series.median()
Median(col) ==
    LET n == Len(col)
        s == Sorted(col)
    IN IF n = 0 THEN NaN
       ELSE IF n % 2 = 1 THEN s[(n + 1) \div 2]
       ELSE RDiv(RAdd(s[n \div 2], s[n \div 2 + 1]), Rat(2, 1))

(***************************************************************************)
(* Datasets and profiles                                                   *)
(***************************************************************************)
Sectors == {"Manufacturing", "Chemical"}

EmployeeCycle == <<70, 100, 130, 131, 100, 69, 90>>

IntensityCycle == <<20000, 22000, 32000>>

PriceCycle == <<12, 15, 18, 15, 12>>

\* the i-th row of the company table the datasets are drawn from
Company(i) ==
    [company_id       |-> i,
     sector           |-> IF i % 5 = 0 THEN "Chemical" ELSE "Manufacturing",
     employees        |-> EmployeeCycle[((i - 1) % Len(EmployeeCycle)) + 1],
     kwh_per_employee |-> Rat(IntensityCycle[((i - 1) % Len(IntensityCycle)) + 1], 1),
     cost_per_kwh     |-> Rat(PriceCycle[((i - 1) % Len(PriceCycle)) + 1], 100)]

RECURSIVE RowsOf(_, _)
RowsOf(ids, i) ==
    IF i > MaxCompanies THEN <<>>
    ELSE IF i \in ids THEN <<Company(i)>> \o RowsOf(ids, i + 1)
    ELSE RowsOf(ids, i + 1)

\* every dataset of at most MaxCompanies rows of the table, the empty one included
Datasets == {RowsOf(ids, 1) : ids \in SUBSET (1..MaxCompanies)}

Profiles ==
    [sector       : Sectors,
     region       : {"Bayern"},
     employees    : {100, 150},
     annual_kwh   : {2000000, 3200000},
     cost_per_kwh : {Rat(15, 100)}]

NoProfile ==
    [sector |-> "", region |-> "", employees |-> 0, annual_kwh |-> 0,
     cost_per_kwh |-> Zero]

DefaultNationalAvg == 26897

\* no metadata file; one without the national key; one with it
Metadatas ==
    {{},
     {<<"energy_statistics", [total_consumption_twh |-> 460]>>},
     {<<"energy_statistics", [manufacturing_kwh_per_employee |-> 30000]>>}}

NoBenchmarks == [efficiency_percentile |-> NaN, cost_percentile |-> NaN]

(***************************************************************************)
(* benchmark_calculator.py: GermanEnergyBenchmarker                        *)
(***************************************************************************)
\* employees >= 0.7 * e and employees <= 1.3 * e; on integer employee counts
\* the float products 0.7 * e and 1.3 * e order as 7e/10 and 13e/10 do
size_match(row, p) ==
    /\ 10 * row.employees >= 7 * p.employees
    /\ 10 * row.employees <= 13 * p.employees

sector_match(row, p) == row.sector = p.sector

\* faulty variant of _find_peers: no fallback to the whole dataset
_find_peers_sector_only(frame, p) ==
    LET both(row)   == sector_match(row, p) /\ size_match(row, p)
        sector(row) == sector_match(row, p)
        primary     == SelectSeq(frame, both)
    IN IF Len(primary) < 5 THEN SelectSeq(frame, sector) ELSE primary

\* faulty variant of _find_peers: the rows returned by the previous call have
\* been taken out of the dataset
_find_peers_consuming(frame, p) ==
    LET fresh(row)  == \A i \in 1..Len(peers) : peers[i] # row
        left        == SelectSeq(frame, fresh)
        both(row)   == sector_match(row, p) /\ size_match(row, p)
        sector(row) == sector_match(row, p)
        primary     == SelectSeq(left, both)
        widened     == IF Len(primary) < 5 THEN SelectSeq(left, sector) ELSE primary
    IN IF Len(widened) < 5 THEN left ELSE widened

\* faulty variant of _find_peers: a thin size band widens to the whole dataset
_find_peers_skip_sector(frame, p) ==
    LET both(row) == sector_match(row, p) /\ size_match(row, p)
        primary   == SelectSeq(frame, both)
    IN IF Len(primary) < 5 THEN frame ELSE primary

_find_peers(frame, p) ==
    LET both(row)   == sector_match(row, p) /\ size_match(row, p)
        sector(row) == sector_match(row, p)
        primary     == SelectSeq(frame, both)
        widened     == IF Len(primary) < 5 THEN SelectSeq(frame, sector) ELSE primary
    IN IF Len(widened) < 5 THEN frame ELSE widened

\* faulty variant of efficiency_percentile_of: peers with equal consumption count
efficiency_percentile_of_ge(group, user_kwh_per_employee) ==
    LET col == Column(group, "kwh_per_employee")
    IN RMul(MaskMean([i \in 1..Len(col) |-> RLe(user_kwh_per_employee, col[i])]),
            Rat(100, 1))

\* (peers['kwh_per_employee'] > user_kwh_per_employee).mean() * 100
efficiency_percentile_of(group, user_kwh_per_employee) ==
    LET col == Column(group, "kwh_per_employee")
    IN RMul(MaskMean([i \in 1..Len(col) |-> RGt(col[i], user_kwh_per_employee)]),
            Rat(100, 1))

\* faulty variant of cost_percentile_of: the comparison reversed
cost_percentile_of_higher(group, cost_per_kwh) ==
    LET col == Column(group, "cost_per_kwh")
    IN RMul(MaskMean([i \in 1..Len(col) |-> RGt(col[i], cost_per_kwh)]),
            Rat(100, 1))

\* (peers['cost_per_kwh'] < profile['cost_per_kwh']).mean() * 100
cost_percentile_of(group, cost_per_kwh) ==
    LET col == Column(group, "cost_per_kwh")
    IN RMul(MaskMean([i \in 1..Len(col) |-> RLt(col[i], cost_per_kwh)]),
            Rat(100, 1))

\* faulty variant of efficiency_savings: the gap is not floored at zero
efficiency_savings_unguarded(p, user_kwh_per_employee, q25) ==
    LET efficiency_gap == RSub(user_kwh_per_employee, q25)
        kwh            == RMul(efficiency_gap, Rat(p.employees, 1))
    IN <<kwh, RMul(kwh, p.cost_per_kwh)>>

\* (efficiency_savings_kwh, efficiency_savings_eur)
efficiency_savings(p, user_kwh_per_employee, q25) ==
    LET efficiency_gap == RSub(user_kwh_per_employee, q25)
        kwh            == RMul(efficiency_gap, Rat(p.employees, 1))
    IN IF RGt(efficiency_gap, Zero)
       THEN <<kwh, RMul(kwh, p.cost_per_kwh)>>
       ELSE <<Zero, Zero>>

cost_savings(p, median_cost) ==
    LET cost_gap == RSub(p.cost_per_kwh, median_cost)
    IN IF RGt(cost_gap, Zero)
       THEN RMul(Rat(p.annual_kwh, 1), cost_gap)
       ELSE Zero

HasEnergyStatistics(meta) ==
    meta # {} /\ \E kv \in meta : kv[1] = "energy_statistics"

national_avg(meta) ==
    LET stats == (CHOOSE kv \in meta : kv[1] = "energy_statistics")[2]
    IN IF "manufacturing_kwh_per_employee" \in DOMAIN stats
       THEN stats.manufacturing_kwh_per_employee
       ELSE DefaultNationalAvg

\* vs_national_pct; None is modelled as the empty tuple
None == <<>>

vs_national_of(meta, user_kwh_per_employee) ==
    IF HasEnergyStatistics(meta)
    THEN RMul(RSub(RDiv(user_kwh_per_employee, Rat(national_avg(meta), 1)), Rat(1, 1)),
              Rat(100, 1))
    ELSE None

_calculate_benchmarks(meta, p, group, user_kwh_per_employee) ==
    LET kwh   == Column(group, "kwh_per_employee")
        cost  == Column(group, "cost_per_kwh")
        peer_stats ==
            [kwh_per_employee_median |-> Median(kwh),
             kwh_per_employee_q25    |-> Quantile(kwh, 1, 4),
             kwh_per_employee_q75    |-> Quantile(kwh, 3, 4),
             cost_per_kwh_median     |-> Median(cost),
             cost_per_kwh_q25        |-> Quantile(cost, 1, 4),
             cost_per_kwh_q75        |-> Quantile(cost, 3, 4)]
        eff   == efficiency_savings(p, user_kwh_per_employee,
                                    peer_stats.kwh_per_employee_q25)
        cst   == cost_savings(p, peer_stats.cost_per_kwh_median)
    IN [efficiency_percentile    |-> efficiency_percentile_of(group, user_kwh_per_employee),
        cost_percentile          |-> cost_percentile_of(group, p.cost_per_kwh),
        efficiency_vs_median_pct |->
            RMul(RSub(RDiv(user_kwh_per_employee, peer_stats.kwh_per_employee_median),
                      Rat(1, 1)), Rat(100, 1)),
        cost_vs_median_pct       |->
            RMul(RSub(RDiv(p.cost_per_kwh, peer_stats.cost_per_kwh_median),
                      Rat(1, 1)), Rat(100, 1)),
        vs_national_pct          |-> vs_national_of(meta, user_kwh_per_employee),
        peer_stats               |-> peer_stats,
        savings_potential        |->
            [efficiency_kwh |-> eff[1],
             efficiency_eur |-> eff[2],
             cost_eur       |-> cst,
             total_eur      |-> RAdd(eff[2], cst)]]

\* the insight dicts in emission order; message, details and action hold the
\* format string of the f-string that produces the text
EFFICIENCY_OPPORTUNITY(priority) ==
    [type            |-> "EFFICIENCY_OPPORTUNITY",
     priority        |-> priority,
     title           |-> "Energy Efficiency Improvement Opportunity",
     message         |-> "You rank {efficiency_percentile:.0f}th percentile among peer companies",
     details         |-> "Top 25% use {kwh_per_employee_q25:,.0f} kWh/employee vs your {user_kwh_per_employee:,.0f}",
     action          |-> "Potential annual savings: {efficiency_eur:,.0f}",
     recommendations |->
         <<"Conduct energy audit to identify efficiency opportunities",
           "Consider LED lighting upgrades and smart controls",
           "Evaluate HVAC optimization and building automation",
           "Implement ISO 50001 energy management system">>]

EFFICIENCY_STRENGTH ==
    [type            |-> "EFFICIENCY_STRENGTH",
     priority        |-> "POSITIVE",
     title           |-> "Strong Energy Efficiency Performance",
     message         |-> "You rank {efficiency_percentile:.0f}th percentile - above average!",
     details         |-> "You use {abs(efficiency_vs_median_pct):.1f}% less energy per employee than peer median",
     action          |-> "Consider sharing best practices or offering consulting services",
     recommendations |->
         <<"Document your energy management practices",
           "Apply for energy efficiency awards/recognition",
           "Share best practices with industry associations",
           "Consider additional renewable energy investments">>]

COST_OPPORTUNITY(priority) ==
    [type            |-> "COST_OPPORTUNITY",
     priority        |-> priority,
     title           |-> "Energy Cost Reduction Opportunity",
     message         |-> "You pay more than {cost_percentile:.0f}% of peer companies",
     details         |-> "Your {cost_per_kwh:.3f}/kWh vs peer median {cost_per_kwh_median:.3f}/kWh",
     action          |-> "Potential annual savings: {cost_eur:,.0f}",
     recommendations |->
         <<"Review energy procurement strategy and contracts",
           "Consider switching to renewable energy tariffs",
           "Evaluate demand response program participation",
           "Negotiate better rates with current supplier">>]

TOTAL_OPPORTUNITY ==
    [type            |-> "TOTAL_OPPORTUNITY",
     priority        |-> "HIGH",
     title           |-> "Significant Cost Optimization Potential",
     message         |-> "Combined optimization potential: {total_savings:,.0f} annually",
     details         |-> "Based on achieving top-quartile performance in your sector",
     action          |-> "ROI payback typically under 2-3 years for most efficiency measures",
     recommendations |->
         <<"Develop comprehensive energy strategy",
           "Consider financing options for efficiency investments",
           "Engage energy management consultant",
           "Set measurable efficiency targets and KPIs">>]

NATIONAL_CONTEXT ==
    [type            |-> "NATIONAL_CONTEXT",
     priority        |-> "MEDIUM",
     title           |-> "Above German Industrial Average",
     message         |-> "You use {vs_national_pct:.1f}% more energy than German industrial average",
     details         |-> "Consider systematic energy management approach",
     action          |-> "ISO 50001 certification could provide structured improvement framework",
     recommendations |->
         <<"Benchmark against German best practices",
           "Participate in energy efficiency networks",
           "Apply for government efficiency funding programs",
           "Connect with German energy agencies for support">>]

efficiency_insight(b) ==
    IF RLt(b.efficiency_percentile, Rat(50, 1))
    THEN <<EFFICIENCY_OPPORTUNITY(IF RLt(b.efficiency_percentile, Rat(25, 1))
                                  THEN "HIGH" ELSE "MEDIUM")>>
    ELSE <<EFFICIENCY_STRENGTH>>

\* faulty variant of cost_insight: the thresholds are inclusive
cost_insight_inclusive(b) ==
    IF RLe(Rat(60, 1), b.cost_percentile)
    THEN <<COST_OPPORTUNITY(IF RLe(Rat(80, 1), b.cost_percentile)
                            THEN "HIGH" ELSE "MEDIUM")>>
    ELSE <<>>

cost_insight(b) ==
    IF RGt(b.cost_percentile, Rat(60, 1))
    THEN <<COST_OPPORTUNITY(IF RGt(b.cost_percentile, Rat(80, 1))
                            THEN "HIGH" ELSE "MEDIUM")>>
    ELSE <<>>

total_insight(b) ==
    IF RGt(b.savings_potential.total_eur, Rat(20000, 1))
    THEN <<TOTAL_OPPORTUNITY>>
    ELSE <<>>

\* benchmarks['vs_national_pct'] and benchmarks['vs_national_pct'] > 15:
\* None and 0.0 are falsy
national_insight(b) ==
    IF b.vs_national_pct # None /\ b.vs_national_pct[1] # 0
       /\ RGt(b.vs_national_pct, Rat(15, 1))
    THEN <<NATIONAL_CONTEXT>>
    ELSE <<>>

\* faulty variant of _generate_insights: the total is appended before the cost
_generate_insights_total_first(b) ==
    efficiency_insight(b) \o total_insight(b) \o cost_insight(b)
        \o national_insight(b)

_generate_insights(b) ==
    efficiency_insight(b) \o cost_insight(b) \o total_insight(b)
        \o national_insight(b)

benchmark_company(p) ==
    /\ program = "benchmark_calculator"
    /\ peers' = _find_peers(df, p)
    /\ benchmarks' = _calculate_benchmarks(metadata, p, peers',
                                            Rat(p.annual_kwh, p.employees))
    /\ insights' = _generate_insights(benchmarks')
    /\ profile' = p
    /\ pc' = "done"
    /\ UNCHANGED <<program, df, metadata>>
    /\ UNCHANGED <<fetchVars, fileVars, refVars, appVars>>

(***************************************************************************)
(* working_mvp.py                                                          *)
(***************************************************************************)
\* faulty variant of find_peer_companies: a group of exactly 5 is widened
find_peer_companies_widen_at_5(user_profile, frame) ==
    LET both(row) ==
            /\ row.sector = user_profile.sector
            /\ 10 * row.employees >= 7 * user_profile.employees
            /\ 10 * row.employees <= 13 * user_profile.employees
        sector(row) == row.sector = user_profile.sector
        primary     == SelectSeq(frame, both)
        widened     == IF Len(primary) <= 5 THEN SelectSeq(frame, sector) ELSE primary
    IN IF Len(widened) <= 5 THEN frame ELSE widened

find_peer_companies(user_profile, frame) ==
    LET both(row) ==
            /\ row.sector = user_profile.sector
            /\ 10 * row.employees >= 7 * user_profile.employees
            /\ 10 * row.employees <= 13 * user_profile.employees
        sector(row) == row.sector = user_profile.sector
        primary     == SelectSeq(frame, both)
        widened     == IF Len(primary) < 5 THEN SelectSeq(frame, sector) ELSE primary
    IN IF Len(widened) < 5 THEN frame ELSE widened

calculate_benchmarks(user_profile, peer_group) ==
    LET user_kwh_per_employee == Rat(user_profile.annual_kwh, user_profile.employees)
        kwh  == Column(peer_group, "kwh_per_employee")
        cost == Column(peer_group, "cost_per_kwh")
        efficiency_percentile ==
            RMul(MaskMean([i \in 1..Len(kwh) |-> RGt(kwh[i], user_kwh_per_employee)]),
                 Rat(100, 1))
        cost_percentile ==
            RMul(MaskMean([i \in 1..Len(cost) |-> RLt(cost[i], user_profile.cost_per_kwh)]),
                 Rat(100, 1))
        peer_median_efficiency == Median(kwh)
        peer_top25_efficiency  == Quantile(kwh, 1, 4)
        peer_median_cost       == Median(cost)
        efficiency_gap == RSub(user_kwh_per_employee, peer_top25_efficiency)
        efficiency_savings_eur ==
            IF RGt(efficiency_gap, Zero)
            THEN RMul(RMul(efficiency_gap, Rat(user_profile.employees, 1)),
                      user_profile.cost_per_kwh)
            ELSE Zero
        cost_gap == RSub(user_profile.cost_per_kwh, peer_median_cost)
        cost_savings_eur ==
            IF RGt(cost_gap, Zero)
            THEN RMul(Rat(user_profile.annual_kwh, 1), cost_gap)
            ELSE Zero
    IN [efficiency_percentile  |-> efficiency_percentile,
        cost_percentile        |-> cost_percentile,
        peer_median_efficiency |-> peer_median_efficiency,
        peer_top25_efficiency  |-> peer_top25_efficiency,
        peer_median_cost       |-> peer_median_cost,
        efficiency_savings_eur |-> efficiency_savings_eur,
        cost_savings_eur       |-> cost_savings_eur,
        total_savings_eur      |-> RAdd(efficiency_savings_eur, cost_savings_eur),
        peer_group_size        |-> Len(peer_group)]

\* one run of the dashboard script with the sidebar inputs p
working_mvp_run(p) ==
    /\ program = "working_mvp"
    /\ peers' = find_peer_companies(p, df)
    /\ benchmarks' = calculate_benchmarks(p, peers')
    /\ profile' = p
    /\ pc' = "done"
    /\ UNCHANGED <<program, df, metadata, insights>>
    /\ UNCHANGED <<fetchVars, fileVars, refVars, appVars>>

(***************************************************************************)
(* Benchmark engine specification                                          *)
(***************************************************************************)
NoCompanies == [count |-> <<>>, last |-> <<>>]

FilesIdle ==
    /\ files = {}
    /\ clock = [now |-> 0, runs |-> 0]
    /\ loaded = [data_file |-> "none"]

\* streamlit_app.py has not been opened
AppIdle ==
    /\ session = [closed |-> TRUE]
    /\ widgets = [closed |-> TRUE]
    /\ screen = [view |-> "none"]

RefIdle ==
    /\ tables = [intensities |-> <<>>, tiers |-> <<>>, sector_metadata |-> <<>>]
    /\ imported = "no"
    /\ call = [fn |-> "none"]
    /\ result = [returns |-> "none"]

FetchIdle ==
    /\ script = "none"
    /\ fpc = "idle"
    /\ response = [kind |-> "none", status |-> 0, body |-> "none", value |-> 0]
    /\ energy_data = [data_source |-> "none"]
    /\ sector_data = <<>>
    /\ companies = NoCompanies

Init ==
    /\ program \in {"benchmark_calculator", "working_mvp"}
    /\ df \in Datasets
    /\ metadata \in (IF program = "benchmark_calculator" THEN Metadatas ELSE {{}})
    /\ pc = "loaded"
    /\ profile = NoProfile
    /\ peers = <<>>
    /\ benchmarks = NoBenchmarks
    /\ insights = <<>>
    /\ FetchIdle
    /\ FilesIdle
    /\ RefIdle
    /\ AppIdle

Next ==
    \/ \E p \in Profiles : benchmark_company(p)
    \/ \E p \in Profiles : working_mvp_run(p)

Spec == Init /\ [][Next]_vars

(***************************************************************************)
(* Properties of the benchmark engine                                      *)
(***************************************************************************)
\* indices of the dataset rows of the profile's sector
SectorRows == {i \in 1..Len(df) : df[i].sector = profile.sector}

\* indices of the dataset rows of the profile's sector within the size band
BandRows ==
    {i \in SectorRows : /\ 10 * df[i].employees >= 7 * profile.employees
                        /\ 10 * df[i].employees <= 13 * profile.employees}

RowSet(frame) == {frame[i] : i \in 1..Len(frame)}

\* peers whose kwh_per_employee is strictly above annual_kwh / employees
PeersUsingMore ==
    {i \in 1..Len(peers) :
        peers[i].kwh_per_employee[1] * profile.employees
            > profile.annual_kwh * peers[i].kwh_per_employee[2]}

PeersPayingMore ==
    {i \in 1..Len(peers) :
        peers[i].cost_per_kwh[1] * profile.cost_per_kwh[2]
            > profile.cost_per_kwh[1] * peers[i].cost_per_kwh[2]}

PeersPayingLess ==
    {i \in 1..Len(peers) :
        peers[i].cost_per_kwh[1] * profile.cost_per_kwh[2]
            < profile.cost_per_kwh[1] * peers[i].cost_per_kwh[2]}

\* the rational r equals 100 * count / total
IsPercentOf(r, count, total) == r[2] > 0 /\ r[1] * total = 100 * count * r[2]

\* C1: for every dataset with at least one company and every profile, the
\* peer group returned by _find_peers / find_peer_companies is non-empty.
C1_PeerGroupNonEmpty ==
    (pc = "done" /\ Len(df) >= 1) => Len(peers) >= 1

\* the sector of the profile has no company and the whole dataset is used
C1_Witness ==
    pc = "done" /\ Len(df) >= 1 /\ SectorRows = {} /\ Len(peers) = Len(df)

\* C2: peer selection widens in exactly three steps: sector and size band
\* [0.7e, 1.3e] inclusive when it has at least 5 companies, otherwise the
\* sector when it has at least 5, otherwise the whole dataset; a set of
\* exactly 5 is kept.
C2_ThreeStepWidening ==
    pc = "done" =>
        IF Cardinality(BandRows) >= 5
        THEN RowSet(peers) = {df[i] : i \in BandRows}
             /\ Len(peers) = Cardinality(BandRows)
        ELSE IF Cardinality(SectorRows) >= 5
        THEN RowSet(peers) = {df[i] : i \in SectorRows}
             /\ Len(peers) = Cardinality(SectorRows)
        ELSE peers = df

\* a band of exactly 5 companies, boundary sizes 0.7e and 1.3e included, is
\* kept although the sector has more
C2_Witness ==
    /\ pc = "done"
    /\ Cardinality(BandRows) = 5
    /\ Cardinality(SectorRows) > 5
    /\ Len(peers) = 5
    /\ \E i \in 1..5 : 10 * peers[i].employees = 7 * profile.employees
    /\ \E i \in 1..5 : 10 * peers[i].employees = 13 * profile.employees

\* C3 as stated: every company of the peer group has the profile's sector.
C3_Original ==
    pc = "done" => \A i \in 1..Len(peers) : peers[i].sector = profile.sector

\* C3 (amended): every company of the peer group has the profile's sector
\* when the dataset holds at least 5 companies of that sector; with fewer
\* the peer group is the whole dataset, other sectors included.
C3_SameSectorWhenPopulated ==
    pc = "done" =>
        /\ Cardinality(SectorRows) >= 5
              => \A i \in 1..Len(peers) : peers[i].sector = profile.sector
        /\ Cardinality(SectorRows) < 5 => peers = df

\* a sector-wide peer group taken from a dataset that holds other sectors
C3_Witness ==
    /\ pc = "done"
    /\ Cardinality(SectorRows) >= 5
    /\ Cardinality(BandRows) < 5
    /\ Len(peers) = Cardinality(SectorRows)
    /\ Len(peers) < Len(df)

\* C4: the efficiency percentile equals 100 times the number of peers whose
\* kwh_per_employee is strictly higher than annual_kwh / employees, divided
\* by the number of peers; peers with equal consumption are not counted.
C4_EfficiencyPercentile ==
    (pc = "done" /\ Len(peers) >= 1) =>
        IsPercentOf(benchmarks.efficiency_percentile,
                    Cardinality(PeersUsingMore), Len(peers))

\* some peer consumes exactly as much as the subject, others more
C4_Witness ==
    /\ pc = "done"
    /\ \E i \in 1..Len(peers) :
          peers[i].kwh_per_employee = Rat(profile.annual_kwh, profile.employees)
    /\ PeersUsingMore # {}
    /\ benchmarks.efficiency_percentile[1] > 0

\* C5 as stated: the cost percentile is 100 times the fraction of peers
\* whose cost_per_kwh is higher than the subject's.
C5_Original ==
    (pc = "done" /\ Len(peers) >= 1) =>
        IsPercentOf(benchmarks.cost_percentile,
                    Cardinality(PeersPayingMore), Len(peers))

\* C5 (amended): the cost percentile is 100 times the fraction of peers
\* whose cost_per_kwh is strictly lower than the subject's, the share of
\* peers the subject pays more than.
C5_CostPercentile ==
    (pc = "done" /\ Len(peers) >= 1) =>
        IsPercentOf(benchmarks.cost_percentile,
                    Cardinality(PeersPayingLess), Len(peers))

\* peers paying less, the same and more than the subject
C5_Witness ==
    /\ pc = "done"
    /\ PeersPayingLess # {}
    /\ PeersPayingMore # {}
    /\ Cardinality(PeersPayingLess) + Cardinality(PeersPayingMore) < Len(peers)
    /\ Cardinality(PeersPayingLess) # Cardinality(PeersPayingMore)

\* C6: for every non-empty peer group and every profile, both percentiles
\* lie between 0 and 100 inclusive.
C6_PercentileRange ==
    (pc = "done" /\ Len(peers) >= 1) =>
        /\ RLe(Zero, benchmarks.efficiency_percentile)
        /\ RLe(benchmarks.efficiency_percentile, Rat(100, 1))
        /\ RLe(Zero, benchmarks.cost_percentile)
        /\ RLe(benchmarks.cost_percentile, Rat(100, 1))

\* both ends of the range: every peer uses more, none pays less
C6_Witness ==
    /\ pc = "done"
    /\ Len(peers) >= 2
    /\ benchmarks.efficiency_percentile = Rat(100, 1)
    /\ benchmarks.cost_percentile = Zero

RMax0(a) == IF RGt(a, Zero) THEN a ELSE Zero

\* the savings figures and the peer statistics they refer to, per program
SavingsView ==
    IF program = "benchmark_calculator"
    THEN [efficiency_eur |-> benchmarks.savings_potential.efficiency_eur,
          cost_eur       |-> benchmarks.savings_potential.cost_eur,
          total_eur      |-> benchmarks.savings_potential.total_eur,
          q25            |-> benchmarks.peer_stats.kwh_per_employee_q25,
          median_cost    |-> benchmarks.peer_stats.cost_per_kwh_median]
    ELSE [efficiency_eur |-> benchmarks.efficiency_savings_eur,
          cost_eur       |-> benchmarks.cost_savings_eur,
          total_eur      |-> benchmarks.total_savings_eur,
          q25            |-> benchmarks.peer_top25_efficiency,
          median_cost    |-> benchmarks.peer_median_cost]

\* C7: efficiency savings = max(0, subject kWh/employee - peer q25) *
\* employees * cost_per_kwh; cost savings = max(0, cost_per_kwh - peer
\* median cost) * annual_kwh; total_eur is their sum; none is negative.
C7_SavingsPotential ==
    (pc = "done" /\ Len(peers) >= 1) =>
        LET v    == SavingsView
            user == Rat(profile.annual_kwh, profile.employees)
        IN /\ v.efficiency_eur =
                 RMul(RMul(RMax0(RSub(user, v.q25)), Rat(profile.employees, 1)),
                      profile.cost_per_kwh)
           /\ v.cost_eur =
                 RMul(RMax0(RSub(profile.cost_per_kwh, v.median_cost)),
                      Rat(profile.annual_kwh, 1))
           /\ v.total_eur = RAdd(v.efficiency_eur, v.cost_eur)
           /\ RLe(Zero, v.efficiency_eur)
           /\ RLe(Zero, v.cost_eur)
           /\ RLe(Zero, v.total_eur)

\* the subject is above an interpolated peer q25 and above the peer median cost
C7_Witness ==
    /\ pc = "done"
    /\ Len(peers) >= 2
    /\ RGt(SavingsView.efficiency_eur, Zero)
    /\ RGt(SavingsView.cost_eur, Zero)
    /\ \A i \in 1..Len(peers) : peers[i].kwh_per_employee # SavingsView.q25

\* a finished call of GermanEnergyBenchmarker.benchmark_company
Benchmarked == program = "benchmark_calculator" /\ pc = "done"

\* position of an insight type in the emission order
InsightRank(type) ==
    CASE type \in {"EFFICIENCY_OPPORTUNITY", "EFFICIENCY_STRENGTH"} -> 1
      [] type = "COST_OPPORTUNITY"  -> 2
      [] type = "TOTAL_OPPORTUNITY" -> 3
      [] type = "NATIONAL_CONTEXT"  -> 4
      [] OTHER -> 0

InsightKeys ==
    {"type", "priority", "title", "message", "details", "action",
     "recommendations"}

HasInsight(type) == \E i \in 1..Len(insights) : insights[i].type = type

InsightOf(type) ==
    insights[CHOOSE i \in 1..Len(insights) : insights[i].type = type]

\* C11: the insight list is never empty and is ordered: exactly one
\* efficiency insight first (opportunity or strength, never both), then at
\* most one COST_OPPORTUNITY, at most one TOTAL_OPPORTUNITY, at most one
\* NATIONAL_CONTEXT; every insight carries type, priority, title, message,
\* details, action and recommendations.
C11_InsightListOrdered ==
    Benchmarked =>
        /\ Len(insights) >= 1
        /\ InsightRank(insights[1].type) = 1
        /\ \A i \in 1..Len(insights) : InsightRank(insights[i].type) >= 1
        /\ \A i, j \in 1..Len(insights) :
              i < j => InsightRank(insights[i].type) < InsightRank(insights[j].type)
        /\ \A i \in 1..Len(insights) : DOMAIN insights[i] = InsightKeys

\* all four kinds of insight are emitted by one call
C11_Witness ==
    /\ Benchmarked
    /\ Len(insights) = 4
    /\ HasInsight("COST_OPPORTUNITY")
    /\ HasInsight("TOTAL_OPPORTUNITY")
    /\ HasInsight("NATIONAL_CONTEXT")

\* the subject's intensity exceeds the national reference by more than 15%
AboveNational ==
    100 * profile.annual_kwh > 115 * national_avg(metadata) * profile.employees

\* C19: EFFICIENCY_OPPORTUNITY is emitted iff efficiency_percentile < 50,
\* HIGH iff < 25 and MEDIUM otherwise; COST_OPPORTUNITY iff cost_percentile
\* > 60, HIGH iff > 80 and MEDIUM otherwise; TOTAL_OPPORTUNITY iff total_eur
\* > 20000; NATIONAL_CONTEXT iff metadata with energy_statistics was loaded
\* and the subject's intensity is more than 15% above the national
\* reference, never without metadata.
C19_InsightThresholds ==
    Benchmarked =>
        /\ HasInsight("EFFICIENCY_OPPORTUNITY")
              <=> RLt(benchmarks.efficiency_percentile, Rat(50, 1))
        /\ HasInsight("EFFICIENCY_OPPORTUNITY") =>
              InsightOf("EFFICIENCY_OPPORTUNITY").priority =
                 (IF RLt(benchmarks.efficiency_percentile, Rat(25, 1))
                  THEN "HIGH" ELSE "MEDIUM")
        /\ HasInsight("COST_OPPORTUNITY")
              <=> RGt(benchmarks.cost_percentile, Rat(60, 1))
        /\ HasInsight("COST_OPPORTUNITY") =>
              InsightOf("COST_OPPORTUNITY").priority =
                 (IF RGt(benchmarks.cost_percentile, Rat(80, 1))
                  THEN "HIGH" ELSE "MEDIUM")
        /\ HasInsight("TOTAL_OPPORTUNITY")
              <=> RGt(benchmarks.savings_potential.total_eur, Rat(20000, 1))
        /\ HasInsight("NATIONAL_CONTEXT")
              <=> (HasEnergyStatistics(metadata) /\ AboveNational)
        /\ metadata = {} => ~HasInsight("NATIONAL_CONTEXT")

\* a cost percentile of exactly 60 gives no cost insight, next to a
\* medium-priority efficiency opportunity, with metadata loaded
C19_Witness ==
    /\ Benchmarked
    /\ benchmarks.cost_percentile = Rat(60, 1)
    /\ ~HasInsight("COST_OPPORTUNITY")
    /\ HasInsight("EFFICIENCY_OPPORTUNITY")
    /\ InsightOf("EFFICIENCY_OPPORTUNITY").priority = "MEDIUM"
    /\ HasEnergyStatistics(metadata)
    /\ ~HasInsight("NATIONAL_CONTEXT")

\* C20: whenever EFFICIENCY_STRENGTH is emitted for a non-empty peer group
\* (efficiency_percentile >= 50), the subject's kWh per employee is at most
\* the peer median, for peer groups of odd and of even size.
C20_StrengthBelowMedian ==
    (Benchmarked /\ Len(peers) >= 1 /\ HasInsight("EFFICIENCY_STRENGTH")) =>
        RLe(Rat(profile.annual_kwh, profile.employees),
            benchmarks.peer_stats.kwh_per_employee_median)

(***************************************************************************)
(* The external statistics fetch                                           *)
(***************************************************************************)
\* outcomes of requests.get: a response with a status and a body, or an
\* exception; value is a figure carried by a decodable body
Responses ==
    [kind : {"response"}, status : {200, 404, 500, 503},
     body : {"dict", "list", "invalid"}, value : {0, 203, 999}]
    \cup [kind : {"timeout", "connection_error"}, status : {0},
          body : {"none"}, value : {0}]

Timestamp == "timestamp"

\* an exception leaving a block
Raise(e) == [exception |-> e]

IsRaise(r) == "exception" \in DOMAIN r

\* d.get(k, default)
Get(d, k, default) == IF k \in DOMAIN d THEN d[k] ELSE default

\* fetch_real_data.py
_process_energy_charts_data_real(data) ==
    LET processed ==
            [total_consumption_twh    |-> 460,
             industry_consumption_twh |-> 203,
             industry_share           |-> Rat(44, 100),
             renewable_share          |-> Rat(60, 100),
             data_source              |-> "Fraunhofer Energy Charts API",
             timestamp                |-> Timestamp]
    IN IF data.body = "dict"
       THEN [k \in DOMAIN processed \cup {"api_data_available"} |->
                IF k = "api_data_available" THEN TRUE ELSE processed[k]]
       ELSE processed

_get_fallback_energy_data_real ==
    [total_consumption_twh    |-> 460,
     industry_consumption_twh |-> 203,
     industry_share           |-> Rat(44, 100),
     renewable_share          |-> Rat(60, 100),
     manufacturing_twh        |-> 156,
     chemicals_twh            |-> 47,
     metals_twh               |-> 38,
     food_twh                 |-> 22,
     automotive_twh           |-> 35,
     manufacturing_employees  |-> 5800,
     chemicals_employees      |-> 458,
     metals_employees         |-> 890,
     food_employees           |-> 834,
     automotive_employees     |-> 1200,
     data_source              |-> "Destatis + Energy Charts verified data",
     timestamp                |-> Timestamp]

\* the try block: the dict returned, or the exception raised by
\* requests.get or response.json()
try_fetch_real(resp) ==
    IF resp.kind # "response" THEN Raise(resp.kind)
    ELSE IF resp.status = 200
    THEN IF resp.body = "invalid" THEN Raise("JSONDecodeError")
         ELSE _process_energy_charts_data_real(resp)
    ELSE _get_fallback_energy_data_real

\* except Exception: the fallback table
fetch_fraunhofer_energy_charts_real(resp) ==
    LET r == try_fetch_real(resp)
    IN IF IsRaise(r) THEN _get_fallback_energy_data_real ELSE r

\* fetch_data_expanded.py
\* faulty variant of _process_energy_charts_data_expanded: a sector figure
\* is taken from the response body
_process_energy_charts_data_expanded_sector_key(data) ==
    [total_consumption_twh    |-> 460,
     industry_consumption_twh |-> 203,
     industry_share           |-> Rat(44, 100),
     renewable_share          |-> Rat(60, 100),
     manufacturing_twh        |-> data.value,
     data_source              |-> "Fraunhofer Energy Charts API",
     timestamp                |-> Timestamp]

_process_energy_charts_data_expanded(data) ==
    LET processed ==
            [total_consumption_twh    |-> 460,
             industry_consumption_twh |-> 203,
             industry_share           |-> Rat(44, 100),
             renewable_share          |-> Rat(60, 100),
             data_source              |-> "Fraunhofer Energy Charts API",
             timestamp                |-> Timestamp]
    IN IF data.body = "dict"
       THEN [k \in DOMAIN processed \cup {"api_data_available"} |->
                IF k = "api_data_available" THEN TRUE ELSE processed[k]]
       ELSE processed

_get_fallback_energy_data_expanded ==
    [total_consumption_twh           |-> 460,
     industry_consumption_twh        |-> 203,
     industry_share                  |-> Rat(44, 100),
     renewable_share                 |-> Rat(60, 100),
     manufacturing_twh               |-> 156,
     healthcare_twh                  |-> 25,
     machinery_twh                   |-> 28,
     electronics_twh                 |-> 15,
     food_twh                        |-> 22,
     construction_twh                |-> 18,
     professional_services_twh       |-> 8,
     metal_processing_twh            |-> 32,
     automotive_twh                  |-> 35,
     chemicals_twh                   |-> 47,
     packaging_twh                   |-> 12,
     pharmaceuticals_twh             |-> 12,
     energy_twh                      |-> 20,
     logistics_twh                   |-> 18,
     printing_media_twh              |-> 6,
     real_estate_twh                 |-> 15,
     furniture_twh                   |-> 8,
     manufacturing_employees         |-> 5800,
     healthcare_employees            |-> 750,
     machinery_employees             |-> 1300,
     electronics_employees           |-> 890,
     food_employees                  |-> 834,
     construction_employees          |-> 2200,
     professional_services_employees |-> 1800,
     metal_processing_employees      |-> 320,
     automotive_employees            |-> 1200,
     chemicals_employees             |-> 458,
     packaging_employees             |-> 380,
     pharmaceuticals_employees       |-> 240,
     energy_employees                |-> 650,
     logistics_employees             |-> 1800,
     printing_media_employees        |-> 180,
     real_estate_employees           |-> 1200,
     furniture_employees             |-> 280,
     data_source |-> "Destatis + Energy Charts + Industry Associations + Sector Research",
     timestamp                       |-> Timestamp]

\* the try block: the dict returned, or the exception raised by
\* requests.get or response.json()
try_fetch_expanded(resp) ==
    IF resp.kind # "response" THEN Raise(resp.kind)
    ELSE IF resp.status = 200
    THEN IF resp.body = "invalid" THEN Raise("JSONDecodeError")
         ELSE _process_energy_charts_data_expanded(resp)
    ELSE _get_fallback_energy_data_expanded

\* except Exception: the fallback table
fetch_fraunhofer_energy_charts_expanded(resp) ==
    LET r == try_fetch_expanded(resp)
    IN IF IsRaise(r) THEN _get_fallback_energy_data_expanded ELSE r

\* data_fetcher.py
\* faulty variant of _process_energy_charts_data_fetcher: the industry total
\* is read from the response body
_process_energy_charts_data_fetcher_uses_body(data) ==
    [industry_total_twh |-> IF data.body = "dict" THEN data.value ELSE 203,
     residential_twh    |-> 128,
     commercial_twh     |-> 105,
     transport_twh      |-> 13,
     timestamp          |-> Timestamp]

_process_energy_charts_data_fetcher(data) ==
    [industry_total_twh |-> 203,
     residential_twh    |-> 128,
     commercial_twh     |-> 105,
     transport_twh      |-> 13,
     timestamp          |-> Timestamp]

_get_fallback_consumption_data ==
    [industry_total_twh            |-> 203,
     industry_manufacturing_twh    |-> 156,
     industry_chemicals_twh        |-> 47,
     industry_metals_twh           |-> 38,
     industry_food_twh             |-> 22,
     total_employees_manufacturing |-> 5800000,
     avg_kwh_per_employee          |-> 14567,
     source                        |-> "Destatis 2024 + Energy Charts",
     timestamp                     |-> Timestamp]

\* the try block: the dict returned, or the exception raised by
\* requests.get or response.json()
try_fetch_consumption(resp) ==
    IF resp.kind # "response" THEN Raise(resp.kind)
    ELSE IF resp.status = 200
    THEN IF resp.body = "invalid" THEN Raise("JSONDecodeError")
         ELSE _process_energy_charts_data_fetcher(resp)
    ELSE _get_fallback_consumption_data

\* except Exception: the fallback table
fetch_energy_charts_consumption(resp) ==
    LET r == try_fetch_consumption(resp)
    IN IF IsRaise(r) THEN _get_fallback_consumption_data ELSE r

(***************************************************************************)
(* create_real_benchmark_dataset: the sector table                         *)
(***************************************************************************)
\* int(twh * 1_000_000_000 / employees / 1000); the float quotient truncates
\* to the integer quotient of twh * 10^6 by employees for the table values
kwh_per_employee_avg(twh, employees) == (twh * 1000000) \div employees

Min(a, b) == IF a < b THEN a ELSE b

\* fetch_real_data.py: sector, its keys in energy_data, std, registry count
RealSectors ==
    <<[sector |-> "Manufacturing", twh |-> "manufacturing_twh",
       employees |-> "manufacturing_employees",
       kwh_per_employee_std |-> 8500, company_count_50_500 |-> 23456],
      [sector |-> "Chemical", twh |-> "chemicals_twh",
       employees |-> "chemicals_employees",
       kwh_per_employee_std |-> 25000, company_count_50_500 |-> 1234],
      [sector |-> "Food Production", twh |-> "food_twh",
       employees |-> "food_employees",
       kwh_per_employee_std |-> 9500, company_count_50_500 |-> 4567],
      [sector |-> "Automotive", twh |-> "automotive_twh",
       employees |-> "automotive_employees",
       kwh_per_employee_std |-> 11000, company_count_50_500 |-> 2890]>>

\* energy_data[key] for every sector; a missing key raises KeyError
real_sector_data_real(data) ==
    IF \E i \in 1..Len(RealSectors) :
          RealSectors[i].twh \notin DOMAIN data
          \/ RealSectors[i].employees \notin DOMAIN data
    THEN Raise("KeyError")
    ELSE [table |->
            [i \in 1..Len(RealSectors) |->
               [sector               |-> RealSectors[i].sector,
                kwh_per_employee_avg |->
                    kwh_per_employee_avg(data[RealSectors[i].twh],
                                         data[RealSectors[i].employees]),
                kwh_per_employee_std |-> RealSectors[i].kwh_per_employee_std,
                n_companies          |->
                    Min(80, RealSectors[i].company_count_50_500 \div 300)]]]

\* fetch_data_expanded.py: sector, its keys in energy_data with the defaults
\* of energy_data.get, std, target_companies
ExpandedSectors ==
    <<[sector |-> "Manufacturing", twh |-> "manufacturing_twh", twh_default |-> 156,
       employees |-> "manufacturing_employees", employees_default |-> 5800,
       kwh_per_employee_std |-> 8500, target_companies |-> 200],
      [sector |-> "Healthcare", twh |-> "healthcare_twh", twh_default |-> 25,
       employees |-> "healthcare_employees", employees_default |-> 750,
       kwh_per_employee_std |-> 12000, target_companies |-> 120],
      [sector |-> "Construction", twh |-> "construction_twh", twh_default |-> 18,
       employees |-> "construction_employees", employees_default |-> 2200,
       kwh_per_employee_std |-> 3500, target_companies |-> 120],
      [sector |-> "Professional Services", twh |-> "professional_services_twh",
       twh_default |-> 8,
       employees |-> "professional_services_employees", employees_default |-> 1800,
       kwh_per_employee_std |-> 1500, target_companies |-> 100],
      [sector |-> "Food Production", twh |-> "food_twh", twh_default |-> 22,
       employees |-> "food_employees", employees_default |-> 834,
       kwh_per_employee_std |-> 9500, target_companies |-> 100],
      [sector |-> "Logistics", twh |-> "logistics_twh", twh_default |-> 18,
       employees |-> "logistics_employees", employees_default |-> 1800,
       kwh_per_employee_std |-> 4000, target_companies |-> 100],
      [sector |-> "Machinery", twh |-> "machinery_twh", twh_default |-> 28,
       employees |-> "machinery_employees", employees_default |-> 1300,
       kwh_per_employee_std |-> 7500, target_companies |-> 80],
      [sector |-> "Automotive", twh |-> "automotive_twh", twh_default |-> 35,
       employees |-> "automotive_employees", employees_default |-> 1200,
       kwh_per_employee_std |-> 11000, target_companies |-> 80],
      [sector |-> "Chemical", twh |-> "chemicals_twh", twh_default |-> 47,
       employees |-> "chemicals_employees", employees_default |-> 458,
       kwh_per_employee_std |-> 25000, target_companies |-> 80],
      [sector |-> "Metal Processing", twh |-> "metal_processing_twh",
       twh_default |-> 32,
       employees |-> "metal_processing_employees", employees_default |-> 320,
       kwh_per_employee_std |-> 25000, target_companies |-> 80],
      [sector |-> "Electronics", twh |-> "electronics_twh", twh_default |-> 15,
       employees |-> "electronics_employees", employees_default |-> 890,
       kwh_per_employee_std |-> 6000, target_companies |-> 80]>>

real_sector_data_expanded(data) ==
    [table |->
        [i \in 1..Len(ExpandedSectors) |->
           [sector               |-> ExpandedSectors[i].sector,
            kwh_per_employee_avg |->
                kwh_per_employee_avg(
                    Get(data, ExpandedSectors[i].twh, ExpandedSectors[i].twh_default),
                    Get(data, ExpandedSectors[i].employees,
                        ExpandedSectors[i].employees_default)),
            kwh_per_employee_std |-> ExpandedSectors[i].kwh_per_employee_std,
            n_companies          |-> ExpandedSectors[i].target_companies]]]

(***************************************************************************)
(* Generator actions                                                       *)
(***************************************************************************)
Scripts == {"fetch_real_data", "fetch_data_expanded", "data_fetcher"}

fetch_of(s, resp) ==
    CASE s = "fetch_real_data"     -> fetch_fraunhofer_energy_charts_real(resp)
      [] s = "fetch_data_expanded" -> fetch_fraunhofer_energy_charts_expanded(resp)
      [] s = "data_fetcher"        -> fetch_energy_charts_consumption(resp)

\* a call of the fetch method of script s, answered by resp
fetch_statistics(s, resp) ==
    /\ script' = s
    /\ response' = resp
    /\ energy_data' = fetch_of(s, resp)
    /\ fpc' = IF IsRaise(energy_data') THEN "raised" ELSE "fetched"
    /\ sector_data' = <<>>
    /\ companies' = NoCompanies
    /\ UNCHANGED <<benchVars, fileVars, refVars, appVars>>

\* companies = [] before the generation loop: no row of any sector
EmptyCompanies(table) == [count |-> [k \in 1..Len(table) |-> 0], last |-> <<>>]

\* create_real_benchmark_dataset of script s: the fetch, then the sector
\* table; the generation loop follows row by row (generate_company)
create_real_benchmark_dataset(s, resp) ==
    /\ s \in {"fetch_real_data", "fetch_data_expanded"}
    /\ script' = s
    /\ response' = resp
    /\ energy_data' = fetch_of(s, resp)
    /\ LET built == IF IsRaise(energy_data') THEN energy_data'
                    ELSE IF s = "fetch_real_data"
                    THEN real_sector_data_real(energy_data')
                    ELSE real_sector_data_expanded(energy_data')
       IN IF IsRaise(built)
          THEN fpc' = built.exception /\ sector_data' = <<>>
          ELSE fpc' = "built" /\ sector_data' = built.table
    /\ companies' = IF fpc' = "built" THEN EmptyCompanies(sector_data')
                     ELSE NoCompanies
    /\ UNCHANGED <<benchVars, fileVars, refVars, appVars>>

InitFetch ==
    /\ program = "generator"
    /\ df = <<>>
    /\ metadata = {}
    /\ pc = "loaded"
    /\ profile = NoProfile
    /\ peers = <<>>
    /\ benchmarks = NoBenchmarks
    /\ insights = <<>>
    /\ FetchIdle
    /\ FilesIdle
    /\ RefIdle
    /\ AppIdle

NextFetch ==
    \/ \E s \in Scripts, resp \in Responses : fetch_statistics(s, resp)
    \/ \E s \in Scripts, resp \in Responses : create_real_benchmark_dataset(s, resp)

SpecFetch == InitFetch /\ [][NextFetch]_vars

(***************************************************************************)
(* The generation loop of the dataset generators                           *)
(***************************************************************************)
\* working_mvp.py: sectors_data, with the keys of the other generators
\* (base_kwh_employee, std_dev, companies)
sectors_data ==
    <<[sector |-> "Manufacturing", kwh_per_employee_avg |-> 14567,
       kwh_per_employee_std |-> 4500, n_companies |-> 80],
      [sector |-> "Chemical", kwh_per_employee_avg |-> 28934,
       kwh_per_employee_std |-> 8200, n_companies |-> 25],
      [sector |-> "Food Production", kwh_per_employee_avg |-> 8934,
       kwh_per_employee_std |-> 2800, n_companies |-> 50],
      [sector |-> "Automotive", kwh_per_employee_avg |-> 16789,
       kwh_per_employee_std |-> 5200, n_companies |-> 45]>>

\* working_mvp.py: regional_prices and the weights of np.random.choice
regional_prices ==
    <<[region |-> "Bayern", industrial_base_price |-> Rat(1478, 10000)],
      [region |-> "Nordrhein-Westfalen", industrial_base_price |-> Rat(1423, 10000)],
      [region |-> "Baden-Wuerttemberg", industrial_base_price |-> Rat(1534, 10000)],
      [region |-> "Niedersachsen", industrial_base_price |-> Rat(1398, 10000)],
      [region |-> "Hessen", industrial_base_price |-> Rat(1456, 10000)],
      [region |-> "Sachsen", industrial_base_price |-> Rat(1389, 10000)]>>

regional_distribution == <<18, 23, 16, 12, 15, 16>>

\* fetch_real_data.py: the regions of each sector and the weights chosen by
\* the sector (in percent)
RealRegions ==
    <<[sector |-> "Manufacturing",
       regions |-> <<"Bayern", "Nordrhein-Westfalen", "Baden-Wuerttemberg", "Niedersachsen", "Hessen">>,
       regional_weights |-> <<25, 25, 25, 25>>],
      [sector |-> "Chemical",
       regions |-> <<"Nordrhein-Westfalen", "Bayern", "Baden-Wuerttemberg", "Hessen">>,
       regional_weights |-> <<35, 25, 20, 20>>],
      [sector |-> "Food Production",
       regions |-> <<"Bayern", "Niedersachsen", "Nordrhein-Westfalen", "Baden-Wuerttemberg">>,
       regional_weights |-> <<25, 25, 25, 25>>],
      [sector |-> "Automotive",
       regions |-> <<"Baden-Wuerttemberg", "Bayern", "Niedersachsen", "Nordrhein-Westfalen">>,
       regional_weights |-> <<40, 30, 15, 15>>]>>

\* fetch_data_expanded.py: regions and regional_weights (in percent)
ExpandedRegions ==
    <<[sector |-> "Manufacturing",
       regions |-> <<"Bayern", "Nordrhein-Westfalen", "Baden-Wuerttemberg", "Niedersachsen", "Hessen", "Sachsen", "Rheinland-Pfalz">>,
       regional_weights |-> <<18, 22, 18, 12, 15, 10, 5>>],
      [sector |-> "Healthcare",
       regions |-> <<"Nordrhein-Westfalen", "Bayern", "Baden-Wuerttemberg", "Niedersachsen", "Hessen", "Sachsen">>,
       regional_weights |-> <<25, 20, 18, 12, 15, 10>>],
      [sector |-> "Construction",
       regions |-> <<"Nordrhein-Westfalen", "Bayern", "Baden-Wuerttemberg", "Niedersachsen", "Hessen", "Sachsen">>,
       regional_weights |-> <<25, 20, 18, 12, 15, 10>>],
      [sector |-> "Professional Services",
       regions |-> <<"Bayern", "Nordrhein-Westfalen", "Baden-Wuerttemberg", "Hessen", "Niedersachsen", "Sachsen">>,
       regional_weights |-> <<25, 25, 18, 20, 8, 4>>],
      [sector |-> "Food Production",
       regions |-> <<"Bayern", "Niedersachsen", "Nordrhein-Westfalen", "Baden-Wuerttemberg", "Sachsen", "Thueringen">>,
       regional_weights |-> <<25, 25, 18, 12, 12, 8>>],
      [sector |-> "Logistics",
       regions |-> <<"Nordrhein-Westfalen", "Bayern", "Baden-Wuerttemberg", "Niedersachsen", "Hessen", "Brandenburg">>,
       regional_weights |-> <<30, 20, 18, 12, 12, 8>>],
      [sector |-> "Machinery",
       regions |-> <<"Baden-Wuerttemberg", "Bayern", "Nordrhein-Westfalen", "Niedersachsen", "Hessen", "Sachsen">>,
       regional_weights |-> <<30, 25, 18, 12, 10, 5>>],
      [sector |-> "Automotive",
       regions |-> <<"Baden-Wuerttemberg", "Bayern", "Niedersachsen", "Nordrhein-Westfalen", "Sachsen", "Thueringen">>,
       regional_weights |-> <<40, 30, 12, 8, 6, 4>>],
      [sector |-> "Chemical",
       regions |-> <<"Nordrhein-Westfalen", "Bayern", "Baden-Wuerttemberg", "Hessen", "Rheinland-Pfalz", "Sachsen">>,
       regional_weights |-> <<35, 20, 18, 12, 10, 5>>],
      [sector |-> "Metal Processing",
       regions |-> <<"Nordrhein-Westfalen", "Sachsen", "Baden-Wuerttemberg", "Bayern", "Thueringen", "Brandenburg">>,
       regional_weights |-> <<40, 20, 15, 12, 8, 5>>],
      [sector |-> "Electronics",
       regions |-> <<"Bayern", "Baden-Wuerttemberg", "Sachsen", "Nordrhein-Westfalen", "Hessen", "Thueringen">>,
       regional_weights |-> <<30, 25, 20, 12, 8, 5>>]>>

get_real_german_prices_expanded ==
    <<[region |-> "Bayern", industrial_base_price |-> Rat(1478, 10000)],
      [region |-> "Nordrhein-Westfalen", industrial_base_price |-> Rat(1423, 10000)],
      [region |-> "Baden-Wuerttemberg", industrial_base_price |-> Rat(1534, 10000)],
      [region |-> "Niedersachsen", industrial_base_price |-> Rat(1398, 10000)],
      [region |-> "Hessen", industrial_base_price |-> Rat(1456, 10000)],
      [region |-> "Sachsen", industrial_base_price |-> Rat(1389, 10000)],
      [region |-> "Rheinland-Pfalz", industrial_base_price |-> Rat(1445, 10000)],
      [region |-> "Thueringen", industrial_base_price |-> Rat(1367, 10000)],
      [region |-> "Brandenburg", industrial_base_price |-> Rat(1356, 10000)]>>

get_real_german_prices_real ==
    <<[region |-> "Bayern", industrial_base_price |-> Rat(1478, 10000)],
      [region |-> "Nordrhein-Westfalen", industrial_base_price |-> Rat(1423, 10000)],
      [region |-> "Baden-Wuerttemberg", industrial_base_price |-> Rat(1534, 10000)],
      [region |-> "Niedersachsen", industrial_base_price |-> Rat(1398, 10000)],
      [region |-> "Hessen", industrial_base_price |-> Rat(1456, 10000)],
      [region |-> "Sachsen", industrial_base_price |-> Rat(1389, 10000)]>>

\* int(x): truncation towards zero
TruncInt(x) == IF x[1] >= 0 THEN x[1] \div x[2] ELSE -((-x[1]) \div x[2])

\* Python's max(a, b) and min(a, b) on floats: the first argument unless the
\* second is strictly greater (smaller)
RMax(a, b) == IF RGt(b, a) THEN b ELSE a

RMin(a, b) == IF RLt(b, a) THEN b ELSE a

RECURSIVE SumTo(_, _)
SumTo(w, i) == IF i = 0 THEN 0 ELSE w[i] + SumTo(w, i - 1)

\* np.random.choice(a, p=p) for the uniform variate u: the first entry whose
\* cumulative weight exceeds u
choice(a, p, u) ==
    a[CHOOSE i \in 1..Len(a) :
         /\ RLt(u, Rat(SumTo(p, i), 100))
         /\ \A j \in 1..(i - 1) : ~RLt(u, Rat(SumTo(p, j), 100))]

\* the parameters in which the three generators differ
Generator(s) ==
    CASE s = "fetch_real_data" ->
           [floor |-> 5000, sigma_price |-> Rat(15, 100), clip |-> "multiplier"]
      [] s = "fetch_data_expanded" ->
           [floor |-> 2000, sigma_price |-> Rat(15, 100), clip |-> "multiplier"]
      [] s = "working_mvp" ->
           [floor |-> 3000, sigma_price |-> Rat(12, 100), clip |-> "price"]

price_data(s) ==
    CASE s = "fetch_real_data"     -> get_real_german_prices_real
      [] s = "fetch_data_expanded" -> get_real_german_prices_expanded
      [] s = "working_mvp"         -> regional_prices

base_price_of(s, region) ==
    LET t == price_data(s)
    IN t[CHOOSE i \in 1..Len(t) : t[i].region = region].industrial_base_price

available_regions(s, k) ==
    CASE s = "fetch_real_data"     -> SubSeq(RealRegions[k].regions, 1, 4)
      [] s = "fetch_data_expanded" -> ExpandedRegions[k].regions
      [] s = "working_mvp"         ->
           [i \in 1..Len(regional_prices) |-> regional_prices[i].region]

region_weights(s, k) ==
    CASE s = "fetch_real_data"     -> RealRegions[k].regional_weights
      [] s = "fetch_data_expanded" -> ExpandedRegions[k].regional_weights
      [] s = "working_mvp"         -> regional_distribution

\* faulty variant of employees_of: the sampled size is not clipped
employees_of_unclipped(size) == TruncInt(size)

\* employees = max(50, min(500, int(sample)))
employees_of(size) ==
    LET n == TruncInt(size)
        m == IF 500 < n THEN 500 ELSE n
    IN IF m > 50 THEN m ELSE 50

\* np.random.normal(mean, std) for the standard normal variate z
normal(mean, std, z) == RAdd(mean, RMul(std, z))

\* cost_per_kwh: a clipped multiplier of the regional base price
\* (fetch_real_data, fetch_data_expanded) or a clipped price (working_mvp)
price_of(s, base_price, z) ==
    LET sample == normal(Rat(1, 1), Generator(s).sigma_price, z)
    IN IF Generator(s).clip = "multiplier"
       THEN RMul(base_price, RMax(Rat(8, 10), RMin(Rat(13, 10), sample)))
       ELSE RMax(Rat(10, 100), RMin(Rat(25, 100), RMul(base_price, sample)))

\* the row appended for sector k of the table with the random draws d
company_row(s, table, k, company_id, d) ==
    LET employees == employees_of(d.size)
        intensity ==
            RMax(Rat(Generator(s).floor, 1),
                 normal(Rat(table[k].kwh_per_employee_avg, 1),
                        Rat(table[k].kwh_per_employee_std, 1), d.z_intensity))
        region     == choice(available_regions(s, k), region_weights(s, k), d.u)
        price      == price_of(s, base_price_of(s, region), d.z_price)
        annual_kwh == RMul(intensity, Rat(employees, 1))
    IN [company_number   |-> company_id,
        sector           |-> table[k].sector,
        region           |-> region,
        employees        |-> employees,
        kwh_per_employee |-> intensity,
        cost_per_kwh     |-> price,
        annual_kwh       |-> annual_kwh,
        annual_cost_eur  |-> RMul(annual_kwh, price)]

\* samples of the company size: np.random.lognormal(np.log(180), 0.6), or
\* np.random.normal(200, 80) in working_mvp
SizeSamples(s) ==
    IF s = "working_mvp"
    THEN <<Rat(-405, 10), Rat(2007, 10), Rat(6127, 10)>>
    ELSE <<Rat(209, 10), Rat(2007, 10), Rat(6127, 10)>>

PriceVariates == <<Rat(-4, 1), Rat(0, 1), Rat(2, 3), Rat(9, 1)>>

IntensityVariates == <<Rat(-4, 1), Rat(1, 1)>>

ChoiceVariates == <<Rat(0, 1), Rat(1, 2), Rat(99, 100)>>

\* the random draws of one loop iteration
Draws(s) ==
    {[size        |-> SizeSamples(s)[a],
      z_price     |-> PriceVariates[b],
      z_intensity |-> IntensityVariates[((a + b) % 2) + 1],
      u           |-> ChoiceVariates[((a + 2 * b) % 3) + 1]] :
        a \in 1..3, b \in 1..4}

\* outcomes of requests.get the generation is followed for
GeneratorResponses ==
    {[kind |-> "response", status |-> 200, body |-> "dict", value |-> 203],
     [kind |-> "response", status |-> 404, body |-> "invalid", value |-> 0]}

TotalCompanies == SumTo(companies.count, Len(companies.count))

\* the sector whose rows are being generated: the first one still short
CurrentSector ==
    CHOOSE k \in 1..Len(sector_data) :
        /\ companies.count[k] < sector_data[k].n_companies
        /\ \A j \in 1..(k - 1) : companies.count[j] = sector_data[j].n_companies

GenerationDone ==
    /\ fpc = "built"
    /\ \A k \in 1..Len(sector_data) : companies.count[k] = sector_data[k].n_companies

\* working_mvp.py: create_german_energy_dataset up to the generation loop
create_german_energy_dataset ==
    /\ script' = "working_mvp"
    /\ fpc' = "built"
    /\ sector_data' = sectors_data
    /\ companies' = EmptyCompanies(sectors_data)
    /\ UNCHANGED <<response, energy_data, benchVars, fileVars, refVars, appVars>>

\* one iteration of the loops over the sectors and range(n_companies)
generate_company(d) ==
    /\ fpc = "built"
    /\ ~GenerationDone
    /\ LET k == CurrentSector
       IN companies' =
             [count |-> [companies.count EXCEPT ![k] = @ + 1],
              last  |-> company_row(script, sector_data, k, TotalCompanies + 1, d)]
    /\ UNCHANGED <<script, fpc, response, energy_data, sector_data,
                   benchVars, fileVars, refVars, appVars>>

NextGenerate ==
    \/ \E s \in {"fetch_real_data", "fetch_data_expanded"},
          resp \in GeneratorResponses :
          fpc = "idle" /\ create_real_benchmark_dataset(s, resp)
    \/ fpc = "idle" /\ create_german_energy_dataset
    \/ \E d \in Draws(script) : generate_company(d)

SpecGenerate == InitFetch /\ [][NextGenerate]_vars

(***************************************************************************)
(* Properties of the generated datasets                                    *)
(***************************************************************************)
\* C15: fetch_data_expanded.create_real_benchmark_dataset generates at least
\* 1200 companies across 12 sectors, each sector contributing exactly its
\* target_companies rows.
C15_ExpandedDatasetSize ==
    (script = "fetch_data_expanded" /\ GenerationDone) =>
        /\ Len(sector_data) = 12
        /\ TotalCompanies >= 1200
        /\ \A k \in 1..Len(sector_data) :
              companies.count[k] = ExpandedSectors[k].target_companies

RowGenerated == fpc = "built" /\ companies.last # <<>>

\* C18: every generated row has an integer employees in [50, 500],
\* kwh_per_employee at least the generator's floor (2000, 5000, 3000),
\* cost_per_kwh within [0.8, 1.3] times the regional base price
\* (fetch_data_expanded, fetch_real_data) or within [0.10, 0.25]
\* (working_mvp), annual_kwh = kwh_per_employee * employees and
\* annual_cost_eur = annual_kwh * cost_per_kwh.
C18_GeneratedRowRanges ==
    RowGenerated =>
        LET row   == companies.last
            floor == CASE script = "fetch_data_expanded" -> 2000
                       [] script = "fetch_real_data"     -> 5000
                       [] script = "working_mvp"         -> 3000
            base  == base_price_of(script, row.region)
        IN /\ row.employees \in 50..500
           /\ RLe(Rat(floor, 1), row.kwh_per_employee)
           /\ IF script = "working_mvp"
              THEN /\ RLe(Rat(10, 100), row.cost_per_kwh)
                   /\ RLe(row.cost_per_kwh, Rat(25, 100))
              ELSE /\ RLe(RMul(Rat(8, 10), base), row.cost_per_kwh)
                   /\ RLe(row.cost_per_kwh, RMul(Rat(13, 10), base))
           /\ row.annual_kwh = RMul(row.kwh_per_employee, Rat(row.employees, 1))
           /\ row.annual_cost_eur = RMul(row.annual_kwh, row.cost_per_kwh)

\* a row whose size sample fell below 50 and whose intensity sample fell
\* below the floor
C18_Witness ==
    /\ RowGenerated
    /\ script = "fetch_data_expanded"
    /\ companies.last.employees = 50
    /\ companies.last.kwh_per_employee = Rat(2000, 1)
    /\ companies.last.sector = "Electronics"

(***************************************************************************)
(* The files of the working directory                                      *)
(*                                                                         *)
(* File names are sequences of code points, compared as Python compares    *)
(* str values.  A file is its name, its time of writing (seconds of the    *)
(* local clock), the script that wrote it and the number of data rows.     *)
(***************************************************************************)
MaxRuns == 3

\* "german_energy_benchmark_data_"
german_energy_benchmark_data_ ==
    <<103, 101, 114, 109, 97, 110, 95, 101, 110, 101, 114, 103, 121, 95,
      98, 101, 110, 99, 104, 109, 97, 114, 107, 95, 100, 97, 116, 97, 95>>

\* "german_energy_benchmark_comprehensive_"
german_energy_benchmark_comprehensive_ ==
    <<103, 101, 114, 109, 97, 110, 95, 101, 110, 101, 114, 103, 121, 95,
      98, 101, 110, 99, 104, 109, 97, 114, 107, 95, 99, 111, 109, 112, 114,
      101, 104, 101, 110, 115, 105, 118, 101, 95>>

\* "german_energy_metadata_"
german_energy_metadata_ ==
    <<103, 101, 114, 109, 97, 110, 95, 101, 110, 101, 114, 103, 121, 95,
      109, 101, 116, 97, 100, 97, 116, 97, 95>>

\* "german_energy_metadata_comprehensive_"
german_energy_metadata_comprehensive_ ==
    <<103, 101, 114, 109, 97, 110, 95, 101, 110, 101, 114, 103, 121, 95,
      109, 101, 116, 97, 100, 97, 116, 97, 95, 99, 111, 109, 112, 114, 101,
      104, 101, 110, 115, 105, 118, 101, 95>>

\* ".csv"
dot_csv ==
    <<46, 99, 115, 118>>

\* ".json"
dot_json ==
    <<46, 106, 115, 111, 110>>

\* the local time at clock.now = 0: 2024-12-31 09:59:58
StartOfClock == [year |-> 2024, month |-> 12, day |-> 31, seconds |-> 35998]

\* seconds between one run and the next
ClockSteps == {1, 50400, 86400}

\* datetime.now(): the calendar date and time of day t seconds after the
\* start, in December 2024 and January 2025
now_of(t) ==
    LET total == StartOfClock.seconds + t
        secs  == total % 86400
        days  == StartOfClock.day + (total \div 86400)
    IN [year   |-> IF days > 31 THEN StartOfClock.year + 1 ELSE StartOfClock.year,
        month  |-> IF days > 31 THEN 1 ELSE StartOfClock.month,
        day    |-> IF days > 31 THEN days - 31 ELSE days,
        hour   |-> secs \div 3600,
        minute |-> (secs % 3600) \div 60,
        second |-> secs % 60]

\* str(n): the decimal digits of n >= 0
RECURSIVE Decimal(_)
Decimal(n) ==
    IF n < 10 THEN <<48 + n>> ELSE Decimal(n \div 10) \o <<48 + (n % 10)>>

\* a strftime field: n padded with zeros to the width
RECURSIVE ZeroPadded(_, _)
ZeroPadded(n, width) ==
    IF Len(Decimal(n)) >= width THEN Decimal(n)
    ELSE <<48>> \o ZeroPadded(n, width - 1)

\* faulty variant of strftime: the fields are not padded
strftime_unpadded(d) ==
    Decimal(d.year) \o Decimal(d.month) \o Decimal(d.day) \o <<95>>
    \o Decimal(d.hour) \o Decimal(d.minute) \o Decimal(d.second)

\* d.strftime('%Y%m%d_%H%M%S')
strftime(d) ==
    ZeroPadded(d.year, 4) \o ZeroPadded(d.month, 2) \o ZeroPadded(d.day, 2)
    \o <<95>>
    \o ZeroPadded(d.hour, 2) \o ZeroPadded(d.minute, 2) \o ZeroPadded(d.second, 2)

\* str comparison a < b: by the first differing code point, a proper prefix
\* being smaller
RECURSIVE StrLt(_, _)
StrLt(a, b) ==
    IF b = <<>> THEN FALSE
    ELSE IF a = <<>> THEN TRUE
    ELSE IF Head(a) # Head(b) THEN Head(a) < Head(b)
    ELSE StrLt(Tail(a), Tail(b))

\* max(names) of a non-empty collection of distinct names
StrMax(names) == CHOOSE m \in names : \A n \in names : n = m \/ StrLt(n, m)

startswith(name, prefix) ==
    Len(name) >= Len(prefix) /\ SubSeq(name, 1, Len(prefix)) = prefix

endswith(name, suffix) ==
    /\ Len(name) >= Len(suffix)
    /\ SubSeq(name, Len(name) - Len(suffix) + 1, Len(name)) = suffix

\* glob.glob(prefix + '*' + suffix) in the working directory
glob(prefix, suffix) ==
    {f.name : f \in {g \in files :
        /\ Len(g.name) >= Len(prefix) + Len(suffix)
        /\ startswith(g.name, prefix)
        /\ endswith(g.name, suffix)}}

csv_filename(s, timestamp) ==
    (IF s = "fetch_real_data" THEN german_energy_benchmark_data_
     ELSE german_energy_benchmark_comprehensive_) \o timestamp \o dot_csv

json_filename(s, timestamp) ==
    (IF s = "fetch_real_data" THEN german_energy_metadata_
     ELSE german_energy_metadata_comprehensive_) \o timestamp \o dot_json

\* open(name, 'w') and the write: a file of that name is replaced
write_file(dir, f) == {g \in dir : g.name # f.name} \cup {f}

\* the table create_real_benchmark_dataset of script s builds, or the
\* exception it raises
built_of(s, data) ==
    IF IsRaise(data) THEN data
    ELSE IF s = "fetch_real_data" THEN real_sector_data_real(data)
    ELSE real_sector_data_expanded(data)

\* len(df) after the generation loop has run over the whole table
RECURSIVE total_companies(_)
total_companies(table) ==
    IF table = <<>> THEN 0
    ELSE Head(table).n_companies + total_companies(Tail(table))

\* main() of fetch_real_data.py and of fetch_data_expanded.py, run step
\* seconds after the previous run: the dataset is created, then the csv and
\* the metadata file are written under the timestamp of the local clock; an
\* exception of create_real_benchmark_dataset ends the run before any write.
\* The rows end with the process; the files keep their number.
main(s, resp, step) ==
    /\ s \in {"fetch_real_data", "fetch_data_expanded"}
    /\ clock.runs < MaxRuns
    /\ clock' = [now |-> clock.now + step, runs |-> clock.runs + 1]
    /\ script' = s
    /\ response' = resp
    /\ energy_data' = fetch_of(s, resp)
    /\ LET built == built_of(s, energy_data')
       IN IF IsRaise(built)
          THEN fpc' = built.exception /\ sector_data' = <<>>
          ELSE fpc' = "saved" /\ sector_data' = built.table
    /\ companies' = NoCompanies
    /\ files' =
          IF fpc' = "saved"
          THEN LET timestamp == strftime(now_of(clock'.now))
                   written   == [mtime  |-> clock'.now,
                                 writer |-> s,
                                 rows   |-> total_companies(sector_data')]
               IN write_file(
                      write_file(files,
                          [name |-> csv_filename(s, timestamp)] @@ written),
                      [name |-> json_filename(s, timestamp)] @@ written)
          ELSE files
    /\ UNCHANGED <<benchVars, loaded, refVars, appVars>>

\* GermanEnergyBenchmarker() without data_file
GermanEnergyBenchmarker ==
    /\ LET csv_files  == glob(german_energy_benchmark_comprehensive_, dot_csv)
           json_files == glob(german_energy_metadata_, dot_json)
       IN loaded' =
             IF csv_files = {} THEN Raise("FileNotFoundError")
             ELSE LET data_file == StrMax(csv_files)
                      f         == CHOOSE g \in files : g.name = data_file
                  IN [data_file     |-> data_file,
                      rows          |-> f.rows,
                      metadata_file |-> IF json_files = {} THEN <<>>
                                        ELSE StrMax(json_files)]
    /\ UNCHANGED <<benchVars, fetchVars, files, clock, refVars, appVars>>

NextFiles ==
    \/ \E s \in {"fetch_real_data", "fetch_data_expanded"},
          resp \in GeneratorResponses, step \in ClockSteps :
          main(s, resp, step)
    \/ GermanEnergyBenchmarker

SpecFiles == InitFetch /\ [][NextFiles]_vars

(***************************************************************************)
(* Properties of the data files and the constructor                        *)
(***************************************************************************)
Constructed == loaded' # loaded

DatasetFiles(dir) == {f \in dir : endswith(f.name, dot_csv)}

\* C16: GermanEnergyBenchmarker() without data_file raises FileNotFoundError
\* when no benchmark dataset file exists in the working directory, and once
\* fetch_real_data.py has run and written its data file, the constructor
\* succeeds.
C16_RunFetchRealDataFirst ==
    [][Constructed =>
          /\ DatasetFiles(files) = {} => loaded' = Raise("FileNotFoundError")
          /\ (\E f \in DatasetFiles(files) : f.writer = "fetch_real_data")
                => ~IsRaise(loaded')]_vars

Comprehensive == {f \in files : f.writer = "fetch_data_expanded"
                                  /\ endswith(f.name, dot_csv)}

\* the dataset file written by the most recent run of fetch_data_expanded.py
MostRecent(fs) == CHOOSE f \in fs : \A g \in fs : g.mtime <= f.mtime

\* C17: after any sequence of generator runs at distinct seconds,
\* GermanEnergyBenchmarker() without data_file loads the dataset file written
\* by the most recent run: the maximum name among the files matching
\* german_energy_benchmark_comprehensive_*.csv carries the latest timestamp.
C17_LoadsMostRecent ==
    [][(Constructed /\ Comprehensive # {}) =>
          /\ ~IsRaise(loaded')
          /\ loaded'.data_file = MostRecent(Comprehensive).name
          /\ glob(german_energy_benchmark_comprehensive_, dot_csv)
                = {f.name : f \in Comprehensive}]_vars

\* the constructor has chosen among a file of 2024 and files of 2025, and
\* among files written at 09:59:59 and at 10:00:00
C17_Witness ==
    /\ ~IsRaise(loaded)
    /\ loaded.data_file # "none"
    /\ Cardinality(Comprehensive) >= 3
    /\ loaded.data_file = MostRecent(Comprehensive).name
    /\ \E f \in Comprehensive : now_of(f.mtime).year = 2024
    /\ \E f \in Comprehensive :
          now_of(f.mtime).hour = 9 /\ now_of(f.mtime).year = 2025
    /\ now_of(MostRecent(Comprehensive).mtime).year = 2025
    /\ now_of(MostRecent(Comprehensive).mtime).hour = 10

(***************************************************************************)
(* Properties of the statistics fetch and the sector tables                *)
(***************************************************************************)
\* the statistics of a fetched dict: every entry but the labels and flags
NumericPart(d) ==
    [k \in DOMAIN d \ {"data_source", "source", "timestamp",
                       "api_data_available", "exception"} |-> d[k]]

\* a status 200 response whose body decodes
Decoded200(resp) ==
    resp.kind = "response" /\ resp.status = 200 /\ resp.body # "invalid"

ProcessedOf(s, resp) ==
    CASE s = "fetch_real_data"     -> _process_energy_charts_data_real(resp)
      [] s = "fetch_data_expanded" -> _process_energy_charts_data_expanded(resp)
      [] s = "data_fetcher"        -> _process_energy_charts_data_fetcher(resp)

FallbackOf(s) ==
    CASE s = "fetch_real_data"     -> _get_fallback_energy_data_real
      [] s = "fetch_data_expanded" -> _get_fallback_energy_data_expanded
      [] s = "data_fetcher"        -> _get_fallback_consumption_data

\* C8: the statistics fetch never propagates an error and, for each HTTP
\* outcome (status 200, another status, an exception or timeout, an
\* undecodable body), returns a dict whose numeric values are hardcoded
\* constants that do not depend on the response body.
C8_FetchReturnsConstants ==
    /\ fpc # "raised"
    /\ fpc = "fetched" =>
         IF Decoded200(response)
         THEN \A other \in {r \in Responses : Decoded200(r)} :
                 NumericPart(energy_data) = NumericPart(ProcessedOf(script, other))
         ELSE NumericPart(energy_data) = NumericPart(FallbackOf(script))

\* a status 200 response with a decoded body carrying its own figure
C8_Witness ==
    /\ script = "data_fetcher"
    /\ fpc = "fetched"
    /\ Decoded200(response)
    /\ response.body = "dict"
    /\ response.value = 999
    /\ energy_data.industry_total_twh = 203

\* C9: in fetch_real_data.py create_real_benchmark_dataset completes and
\* yields the per-sector averages of the fallback table whether the HTTP
\* call returns status 200, another status, or raises.
C9_RealDatasetUsesFallback ==
    (script = "fetch_real_data" /\ fpc \notin {"idle", "fetched"}) =>
        /\ fpc = "built"
        /\ sector_data = real_sector_data_real(_get_fallback_energy_data_real).table

\* C10: in fetch_data_expanded.py the per-sector average intensity and the
\* number of generated companies of every sector are the same for every
\* HTTP outcome: the defaults of energy_data.get equal the fallback values.
C10_ExpandedSameForEveryOutcome ==
    /\ \A i \in 1..Len(ExpandedSectors) :
          /\ ExpandedSectors[i].twh_default =
                _get_fallback_energy_data_expanded[ExpandedSectors[i].twh]
          /\ ExpandedSectors[i].employees_default =
                _get_fallback_energy_data_expanded[ExpandedSectors[i].employees]
    /\ (script = "fetch_data_expanded" /\ fpc \notin {"idle", "fetched"}) =>
          /\ fpc = "built"
          /\ sector_data =
                real_sector_data_expanded(_get_fallback_energy_data_expanded).table

\* the table built from a status 200 answer, which holds no sector key
C10_Witness ==
    /\ script = "fetch_data_expanded"
    /\ fpc = "built"
    /\ Decoded200(response)
    /\ "manufacturing_twh" \notin DOMAIN energy_data
    /\ sector_data[1].kwh_per_employee_avg = 26896
    /\ sector_data[1].n_companies = 200

(***************************************************************************)
(* real_german_data.py: the reference tables and their helper functions    *)
(***************************************************************************)
MaxOffset == 3

\* dicts are sequences of entries in insertion order
REAL_ENERGY_INTENSITIES ==
    <<[sector |-> "Manufacturing",   kwh |-> 25800],
      [sector |-> "Chemical",        kwh |-> 86940],
      [sector |-> "Food Production", kwh |-> 24720],
      [sector |-> "Automotive",      kwh |-> 17170],
      [sector |-> "Metals",          kwh |-> 92080],
      [sector |-> "Paper",           kwh |-> 132910],
      [sector |-> "Electronics",     kwh |-> 9310],
      [sector |-> "Textiles",        kwh |-> 10940]>>

REAL_PRICING_TIERS ==
    <<[tier |-> "tier_1", name |-> "Small-Medium Industrial",
       min_kwh |-> 160000, max_kwh |-> 20000000,
       price_ct_kwh |-> Rat(1709, 100),
       description |-> "160k - 20M kWh annual consumption"],
      [tier |-> "tier_2", name |-> "Large Industrial",
       min_kwh |-> 20000001, max_kwh |-> 70000000,
       price_ct_kwh |-> Rat(1699, 100),
       description |-> "20M - 70M kWh annual consumption"],
      [tier |-> "tier_3", name |-> "Very Large Industrial",
       min_kwh |-> 70000001, max_kwh |-> 150000000,
       price_ct_kwh |-> Rat(1412, 100),
       description |-> "70M - 150M kWh annual consumption"]>>

SECTOR_METADATA ==
    <<[sector |-> "Manufacturing",   wz08_code |-> "C"],
      [sector |-> "Chemical",        wz08_code |-> "20"],
      [sector |-> "Food Production", wz08_code |-> "10"],
      [sector |-> "Automotive",      wz08_code |-> "29"],
      [sector |-> "Paper",           wz08_code |-> "17"],
      [sector |-> "Electronics",     wz08_code |-> "26"],
      [sector |-> "Metals",          wz08_code |-> "24"],
      [sector |-> "Textiles",        wz08_code |-> "13"]>>

ShippedTables ==
    [intensities     |-> REAL_ENERGY_INTENSITIES,
     tiers           |-> REAL_PRICING_TIERS,
     sector_metadata |-> SECTOR_METADATA]

\* the shipped tables and edits of them: a zero or negative intensity, tier
\* ranges that touch, overlap or leave a gap, a missing or extra metadata entry
TableEdits ==
    [intensities :
        {REAL_ENERGY_INTENSITIES,
         [REAL_ENERGY_INTENSITIES EXCEPT ![8].kwh = 0],
         [REAL_ENERGY_INTENSITIES EXCEPT ![2].kwh = -1]},
     tiers :
        {REAL_PRICING_TIERS,
         [REAL_PRICING_TIERS EXCEPT ![1].max_kwh = 20000001],
         [REAL_PRICING_TIERS EXCEPT ![2].max_kwh = 70000005],
         [REAL_PRICING_TIERS EXCEPT ![1].max_kwh = 19999999]},
     sector_metadata :
        {SECTOR_METADATA,
         SubSeq(SECTOR_METADATA, 1, 4) \o SubSeq(SECTOR_METADATA, 6, 8),
         SECTOR_METADATA \o <<[sector |-> "Glass", wz08_code |-> "23"]>>}]

\* key in dict
HasKey(dict, key) == \E i \in 1..Len(dict) : dict[i].sector = key

\* dict[key]
Lookup(dict, key) == dict[CHOOSE i \in 1..Len(dict) : dict[i].sector = key]

Returns(v) == [returns |-> v]

\* faulty variant of get_pricing_tier: the upper end of a tier is exclusive
get_pricing_tier_exclusive(tiers, annual_kwh) ==
    LET matching == {i \in 1..Len(tiers) :
                        tiers[i].min_kwh <= annual_kwh /\ annual_kwh < tiers[i].max_kwh}
    IN IF matching # {}
       THEN LET first == CHOOSE i \in matching : \A j \in matching : i <= j
            IN [tier         |-> tiers[first].tier,
                price_ct_kwh |-> tiers[first].price_ct_kwh,
                description  |-> tiers[first].description]
       ELSE IF annual_kwh < 160000
       THEN [tier         |-> "tier_1",
             price_ct_kwh |->
                 tiers[CHOOSE i \in 1..Len(tiers) : tiers[i].tier = "tier_1"].price_ct_kwh,
             description  |-> "Small consumer (< 160k kWh) - using tier 1 rate"]
       ELSE [tier         |-> "enterprise",
             price_ct_kwh |-> Rat(1250, 100),
             description  |-> "Enterprise consumer (> 150M kWh)"]

\* the first tier in dict order whose range holds annual_kwh, else tier_1 for
\* small consumers, else the enterprise fallback
get_pricing_tier(tiers, annual_kwh) ==
    LET matching == {i \in 1..Len(tiers) :
                        tiers[i].min_kwh <= annual_kwh /\ annual_kwh <= tiers[i].max_kwh}
    IN IF matching # {}
       THEN LET first == CHOOSE i \in matching : \A j \in matching : i <= j
            IN [tier         |-> tiers[first].tier,
                price_ct_kwh |-> tiers[first].price_ct_kwh,
                description  |-> tiers[first].description]
       ELSE IF annual_kwh < 160000
       THEN [tier         |-> "tier_1",
             price_ct_kwh |->
                 tiers[CHOOSE i \in 1..Len(tiers) : tiers[i].tier = "tier_1"].price_ct_kwh,
             description  |-> "Small consumer (< 160k kWh) - using tier 1 rate"]
       ELSE [tier         |-> "enterprise",
             price_ct_kwh |-> Rat(1250, 100),
             description  |-> "Enterprise consumer (> 150M kWh)"]

calculate_annual_consumption(intensities, employees, sector) ==
    IF ~HasKey(intensities, sector) THEN Raise("ValueError")
    ELSE Returns(employees * Lookup(intensities, sector).kwh)

\* faulty variant of efficiency_class: the upper ends are exclusive
efficiency_class_exclusive(efficiency_ratio) ==
    IF RLt(efficiency_ratio, Rat(75, 100))
    THEN [percentile |-> "Top 10%", performance |-> "Excellent"]
    ELSE IF RLt(efficiency_ratio, Rat(90, 100))
    THEN [percentile |-> "Top 25%", performance |-> "Very Good"]
    ELSE IF RLt(efficiency_ratio, Rat(110, 100))
    THEN [percentile |-> "Average", performance |-> "Good"]
    ELSE IF RLt(efficiency_ratio, Rat(125, 100))
    THEN [percentile |-> "Below Average", performance |-> "Needs Improvement"]
    ELSE [percentile |-> "Bottom 25%", performance |-> "Poor"]

\* the percentile and performance labels of an efficiency ratio; the float
\* literals 0.75, 0.90, 1.10, 1.25 compare with user / average as the
\* fractions do
efficiency_class(efficiency_ratio) ==
    IF RLe(efficiency_ratio, Rat(75, 100))
    THEN [percentile |-> "Top 10%", performance |-> "Excellent"]
    ELSE IF RLe(efficiency_ratio, Rat(90, 100))
    THEN [percentile |-> "Top 25%", performance |-> "Very Good"]
    ELSE IF RLe(efficiency_ratio, Rat(110, 100))
    THEN [percentile |-> "Average", performance |-> "Good"]
    ELSE IF RLe(efficiency_ratio, Rat(125, 100))
    THEN [percentile |-> "Below Average", performance |-> "Needs Improvement"]
    ELSE [percentile |-> "Bottom 25%", performance |-> "Poor"]

\* the returned dict without its formatted vs_average text
get_sector_efficiency_rank(intensities, user_kwh_per_employee, sector) ==
    IF ~HasKey(intensities, sector) THEN Raise("ValueError")
    ELSE LET sector_average   == Lookup(intensities, sector).kwh
             efficiency_ratio == RDiv(user_kwh_per_employee, Rat(sector_average, 1))
             class            == efficiency_class(efficiency_ratio)
         IN [efficiency_ratio |-> efficiency_ratio,
             percentile       |-> class.percentile,
             performance      |-> class.performance,
             sector_average   |-> sector_average]

\* faulty variant of validate_data_integrity: touching tier ranges pass
validate_data_integrity_strict_overlap(t) ==
    LET bad(e) == e.kwh <= 0
        missing(e) == ~HasKey(t.sector_metadata, e.sector)
        overlap == [i \in 1..(IF Len(t.tiers) = 0 THEN 0 ELSE Len(t.tiers) - 1) |->
                       t.tiers[i].max_kwh > t.tiers[i + 1].min_kwh]
        errors ==
            [i \in 1..Len(SelectSeq(t.intensities, bad)) |->
                <<"Invalid energy intensity for", SelectSeq(t.intensities, bad)[i].sector>>]
            \o [i \in 1..Cardinality({j \in DOMAIN overlap : overlap[j]}) |->
                <<"Pricing tier ranges overlap">>]
            \o [i \in 1..Len(SelectSeq(t.intensities, missing)) |->
                <<"Missing metadata for", SelectSeq(t.intensities, missing)[i].sector>>]
    IN IF errors # <<>>
       THEN [exception |-> "ValueError", errors |-> errors]
       ELSE Returns(TRUE)

\* the error list in the order the three checks append to it
validate_data_integrity(t) ==
    LET bad(e) == e.kwh <= 0
        missing(e) == ~HasKey(t.sector_metadata, e.sector)
        overlap == [i \in 1..(IF Len(t.tiers) = 0 THEN 0 ELSE Len(t.tiers) - 1) |->
                       t.tiers[i].max_kwh >= t.tiers[i + 1].min_kwh]
        errors ==
            [i \in 1..Len(SelectSeq(t.intensities, bad)) |->
                <<"Invalid energy intensity for", SelectSeq(t.intensities, bad)[i].sector>>]
            \o [i \in 1..Cardinality({j \in DOMAIN overlap : overlap[j]}) |->
                <<"Pricing tier ranges overlap">>]
            \o [i \in 1..Len(SelectSeq(t.intensities, missing)) |->
                <<"Missing metadata for", SelectSeq(t.intensities, missing)[i].sector>>]
    IN IF errors # <<>>
       THEN [exception |-> "ValueError", errors |-> errors]
       ELSE Returns(TRUE)

\* annual consumptions around every tier boundary
AnnualKwhInputs ==
    (0..MaxOffset)
    \cup {b + d : b \in {160000, 20000000, 70000000, 150000000},
                  d \in (-MaxOffset)..MaxOffset}

SectorInputs ==
    {REAL_ENERGY_INTENSITIES[i].sector : i \in 1..Len(REAL_ENERGY_INTENSITIES)}
    \cup {"Glass", "Healthcare"}

\* consumptions per employee around every class boundary of a sector average
UserKwhInputs(average) ==
    {0}
    \cup {(average * t) \div 100 + d : t \in {75, 90, 110, 125},
                                       d \in (-MaxOffset)..MaxOffset}

AverageOf(sector) ==
    IF HasKey(REAL_ENERGY_INTENSITIES, sector)
    THEN Lookup(REAL_ENERGY_INTENSITIES, sector).kwh
    ELSE 20000

\* import real_german_data: the module body runs validate_data_integrity()
import_real_german_data ==
    /\ program = "real_german_data"
    /\ imported = "no"
    /\ call' = [fn |-> "validate_data_integrity"]
    /\ result' = validate_data_integrity(tables)
    /\ imported' = IF IsRaise(result') THEN result'.exception ELSE "ok"
    /\ UNCHANGED <<tables, benchVars, fetchVars, fileVars, appVars>>

validate_data_integrity_call ==
    /\ imported = "ok"
    /\ call' = [fn |-> "validate_data_integrity"]
    /\ result' = validate_data_integrity(tables)
    /\ UNCHANGED <<tables, imported, benchVars, fetchVars, fileVars, appVars>>

get_pricing_tier_call(annual_kwh) ==
    /\ imported = "ok"
    /\ call' = [fn |-> "get_pricing_tier", annual_kwh |-> annual_kwh]
    /\ result' = get_pricing_tier(tables.tiers, annual_kwh)
    /\ UNCHANGED <<tables, imported, benchVars, fetchVars, fileVars, appVars>>

calculate_annual_consumption_call(employees, sector) ==
    /\ imported = "ok"
    /\ call' = [fn |-> "calculate_annual_consumption",
                employees |-> employees, sector |-> sector]
    /\ result' = calculate_annual_consumption(tables.intensities, employees, sector)
    /\ UNCHANGED <<tables, imported, benchVars, fetchVars, fileVars, appVars>>

get_sector_efficiency_rank_call(user_kwh_per_employee, sector) ==
    /\ imported = "ok"
    /\ call' = [fn |-> "get_sector_efficiency_rank",
                user_kwh_per_employee |-> user_kwh_per_employee,
                sector |-> sector]
    /\ result' = get_sector_efficiency_rank(tables.intensities,
                                            Rat(user_kwh_per_employee, 1), sector)
    /\ UNCHANGED <<tables, imported, benchVars, fetchVars, fileVars, appVars>>

InitData ==
    /\ program = "real_german_data"
    /\ df = <<>>
    /\ metadata = {}
    /\ pc = "loaded"
    /\ profile = NoProfile
    /\ peers = <<>>
    /\ benchmarks = NoBenchmarks
    /\ insights = <<>>
    /\ FetchIdle
    /\ FilesIdle
    /\ AppIdle
    /\ tables \in TableEdits
    /\ imported = "no"
    /\ call = [fn |-> "none"]
    /\ result = [returns |-> "none"]

NextData ==
    \/ import_real_german_data
    \/ validate_data_integrity_call
    \/ \E annual_kwh \in AnnualKwhInputs : get_pricing_tier_call(annual_kwh)
    \/ \E employees \in {50, 500}, sector \in SectorInputs :
          calculate_annual_consumption_call(employees, sector)
    \/ \E sector \in SectorInputs :
          \E user \in UserKwhInputs(AverageOf(sector)) :
             get_sector_efficiency_rank_call(user, sector)

SpecData == InitData /\ [][NextData]_vars

(***************************************************************************)
(* Properties of the reference tables                                      *)
(***************************************************************************)
PricingCall == call.fn = "get_pricing_tier" /\ tables.tiers = REAL_PRICING_TIERS

\* C12: on the shipped tiers every integer annual_kwh >= 0 falls in exactly
\* one case: below 160,000 and 160,000..20,000,000 give tier_1 at 17.09,
\* 20,000,001..70,000,000 tier_2 at 16.99, 70,000,001..150,000,000 tier_3 at
\* 14.12, above 150,000,000 'enterprise' at 12.50; nothing inside
\* 160,000..150,000,000 falls into the enterprise fallback.
C12_PricingTierTotal ==
    PricingCall =>
        LET k == call.annual_kwh
            expected ==
                CASE k <= 20000000 -> <<"tier_1", Rat(1709, 100)>>
                  [] k >= 20000001 /\ k <= 70000000 -> <<"tier_2", Rat(1699, 100)>>
                  [] k >= 70000001 /\ k <= 150000000 -> <<"tier_3", Rat(1412, 100)>>
                  [] k > 150000000 -> <<"enterprise", Rat(1250, 100)>>
        IN /\ <<result.tier, result.price_ct_kwh>> = expected
           /\ (k >= 160000 /\ k <= 150000000) => result.tier # "enterprise"

\* the upper end of tier_1, one below the lower end of tier_2
C12_Witness ==
    /\ PricingCall
    /\ call.annual_kwh = 20000000
    /\ result.tier = "tier_1"

RankCall == call.fn = "get_sector_efficiency_rank"

ClassOrder(percentile) ==
    CASE percentile = "Top 10%"       -> 1
      [] percentile = "Top 25%"       -> 2
      [] percentile = "Average"       -> 3
      [] percentile = "Below Average" -> 4
      [] percentile = "Bottom 25%"    -> 5

\* the class the claim assigns to a consumption u against a sector average a
ClaimedClass(u, a) ==
    IF 100 * u <= 75 * a THEN <<"Top 10%", "Excellent">>
    ELSE IF 100 * u <= 90 * a THEN <<"Top 25%", "Very Good">>
    ELSE IF 100 * u <= 110 * a THEN <<"Average", "Good">>
    ELSE IF 100 * u <= 125 * a THEN <<"Below Average", "Needs Improvement">>
    ELSE <<"Bottom 25%", "Poor">>

\* C13: get_sector_efficiency_rank raises ValueError exactly when the sector
\* is not a key of REAL_ENERGY_INTENSITIES; otherwise with r = user / average
\* it returns r <= 0.75 Top 10%/Excellent, <= 0.90 Top 25%/Very Good,
\* <= 1.10 Average/Good, <= 1.25 Below Average/Needs Improvement, else
\* Bottom 25%/Poor; the class never improves when consumption increases.
C13_EfficiencyRank ==
    RankCall =>
        LET known == HasKey(tables.intensities, call.sector)
            u     == call.user_kwh_per_employee
        IN /\ IsRaise(result) <=> ~known
           /\ IsRaise(result) => result.exception = "ValueError"
           /\ known =>
                 LET a == Lookup(tables.intensities, call.sector).kwh
                 IN /\ <<result.percentile, result.performance>> = ClaimedClass(u, a)
                    /\ \A v \in UserKwhInputs(a) :
                          v >= u =>
                             ClassOrder(get_sector_efficiency_rank(
                                 tables.intensities, Rat(v, 1), call.sector).percentile)
                                >= ClassOrder(result.percentile)

\* a consumption of exactly 1.25 times the sector average
C13_Witness ==
    /\ RankCall
    /\ ~IsRaise(result)
    /\ 100 * call.user_kwh_per_employee = 125 * result.sector_average
    /\ result.percentile = "Below Average"

\* the three defects validate_data_integrity looks for
IntegrityDefect(t) ==
    \/ \E i \in 1..Len(t.intensities) : t.intensities[i].kwh <= 0
    \/ \E i \in 1..(Len(t.tiers) - 1) : t.tiers[i].max_kwh >= t.tiers[i + 1].min_kwh
    \/ \E i \in 1..Len(t.intensities) :
          \A j \in 1..Len(t.sector_metadata) :
             t.sector_metadata[j].sector # t.intensities[i].sector

\* C14: validate_data_integrity, run at import, raises ValueError exactly
\* when some sector intensity is <= 0, or some tier's max_kwh is >= the next
\* tier's min_kwh, or some sector has no SECTOR_METADATA entry, and returns
\* True otherwise; the shipped constants pass it.
C14_ValidateDataIntegrity ==
    /\ call.fn = "validate_data_integrity" =>
          /\ IsRaise(result) <=> IntegrityDefect(tables)
          /\ IsRaise(result) => result.exception = "ValueError" /\ imported = "ValueError"
          /\ ~IsRaise(result) => result = Returns(TRUE) /\ imported = "ok"
    /\ (call.fn = "validate_data_integrity" /\ tables = ShippedTables) =>
          result = Returns(TRUE)
    /\ (imported # "no" /\ tables = ShippedTables) => imported = "ok"

\* tier_1 ends exactly where tier_2 starts: the only defect, and it is reported
C14_Witness ==
    /\ call.fn = "validate_data_integrity"
    /\ tables.intensities = REAL_ENERGY_INTENSITIES
    /\ tables.sector_metadata = SECTOR_METADATA
    /\ tables.tiers[1].max_kwh = tables.tiers[2].min_kwh
    /\ imported = "ValueError"


(***************************************************************************)
(* simple_app.py: the test dashboard                                       *)
(***************************************************************************)
\* the options of the sector selectbox
SimpleSectors == {"Manufacturing", "Chemical", "Food Production", "Automotive"}

\* values of the sidebar inputs within their limits
SimpleInputs ==
    [sector       : SimpleSectors,
     region       : {"Bayern"},
     employees    : {100, 500},
     annual_kwh   : {2000000, 3200000},
     cost_per_kwh : {Rat(15, 100)}]

\* faulty variant of peer_companies: a thin size band is not widened
peer_companies_band_only(frame, p) ==
    LET both(row) == sector_match(row, p) /\ size_match(row, p)
    IN SelectSeq(frame, both)

\* the peer rows: sector and size band, or the whole sector when fewer than 5
peer_companies(frame, p) ==
    LET both(row)   == sector_match(row, p) /\ size_match(row, p)
        sector(row) == sector_match(row, p)
        primary     == SelectSeq(frame, both)
    IN IF Len(primary) < 5 THEN SelectSeq(frame, sector) ELSE primary

\* one run of the script with the sidebar inputs p: the metrics, the median
\* line of the chart and the two insight boxes
simple_app_run(p) ==
    /\ program = "simple_app"
    /\ peers' = peer_companies(df, p)
    /\ LET user_kwh_per_employee == Rat(p.annual_kwh, p.employees)
           efficiency_percentile == efficiency_percentile_of(peers', user_kwh_per_employee)
           cost_percentile       == cost_percentile_of(peers', p.cost_per_kwh)
           cost_median           == Median(Column(peers', "cost_per_kwh"))
       IN benchmarks' =
             [efficiency_percentile |-> efficiency_percentile,
              cost_percentile       |-> cost_percentile,
              peer_median           |-> Median(Column(peers', "kwh_per_employee")),
              efficiency_box        |->
                  IF RLt(efficiency_percentile, Rat(50, 1))
                  THEN "Efficiency Opportunity" ELSE "Good Efficiency",
              cost_box              |->
                  IF RGt(cost_percentile, Rat(60, 1))
                  THEN "Cost Opportunity" ELSE "Competitive Pricing",
              potential_savings     |->
                  IF RGt(cost_percentile, Rat(60, 1))
                  THEN RMul(Rat(p.annual_kwh, 1), RSub(p.cost_per_kwh, cost_median))
                  ELSE None]
    /\ profile' = p
    /\ pc' = "done"
    /\ UNCHANGED <<program, df, metadata, insights>>
    /\ UNCHANGED <<fetchVars, fileVars, refVars, appVars>>

InitSimple ==
    /\ program = "simple_app"
    /\ df \in Datasets
    /\ metadata = {}
    /\ pc = "loaded"
    /\ profile = NoProfile
    /\ peers = <<>>
    /\ benchmarks = NoBenchmarks
    /\ insights = <<>>
    /\ FetchIdle
    /\ FilesIdle
    /\ RefIdle
    /\ AppIdle

NextSimple == \E p \in SimpleInputs : simple_app_run(p)

SpecSimple == InitSimple /\ [][NextSimple]_vars

(***************************************************************************)
(* Properties of simple_app.py                                             *)
(***************************************************************************)
SimpleDone == program = "simple_app" /\ pc = "done"

sectors == [i \in 1..Len(REAL_ENERGY_INTENSITIES) |-> REAL_ENERGY_INTENSITIES[i].sector]

regions ==
    <<"Bayern", "Nordrhein-Westfalen", "Baden-Wuerttemberg", "Niedersachsen",
      "Hessen", "Sachsen">>

\* the default of the cost input: the tier price in euros
real_cost_per_kwh(annual_kwh) ==
    RDiv(get_pricing_tier(REAL_PRICING_TIERS, annual_kwh).price_ct_kwh, Rat(100, 1))

\* the sidebar when the page is opened: every input at its default
DefaultWidgets ==
    [sector       |-> sectors[1],
     region       |-> regions[1],
     employees    |-> 100,
     annual_kwh   |-> 2000000,
     cost_default |-> real_cost_per_kwh(2000000),
     cost_per_kwh |-> real_cost_per_kwh(2000000)]

\* values the user enters, within the limits of the inputs
SectorEdits == {"Manufacturing", "Chemical"}

RegionEdits == {"Bayern", "Sachsen"}

EmployeesEdits == {100, 1000}

AnnualKwhEdits == {2000000, 2500000, 3000000, 21000000}

CostEdits == {Rat(15, 100), Rat(20, 100)}

\* the sidebar block: the cost input is declared with value=real_cost_per_kwh
\* and without a key, so a changed default makes it a new input that shows
\* the new default
sidebar(w) ==
    LET default == real_cost_per_kwh(w.annual_kwh)
    IN IF default = w.cost_default THEN w
       ELSE [w EXCEPT !.cost_default = default, !.cost_per_kwh = default]

\* faulty variant of company_profile: the default price instead of the input
company_profile_default_cost(w) ==
    [sector           |-> w.sector,
     region           |-> w.region,
     employees        |-> w.employees,
     annual_kwh       |-> w.annual_kwh,
     cost_per_kwh     |-> Rat(15, 100),
     kwh_per_employee |-> Rat(w.annual_kwh, w.employees),
     annual_cost      |-> RMul(Rat(w.annual_kwh, 1), Rat(15, 100))]

\* the dict stored by the Run button
company_profile(w) ==
    [sector           |-> w.sector,
     region           |-> w.region,
     employees        |-> w.employees,
     annual_kwh       |-> w.annual_kwh,
     cost_per_kwh     |-> w.cost_per_kwh,
     kwh_per_employee |-> Rat(w.annual_kwh, w.employees),
     annual_cost      |-> RMul(Rat(w.annual_kwh, 1), w.cost_per_kwh)]

\* the cost of the consumption above the target of 0.75 * sector average
savings_above_target(p, sector_average) ==
    RMul(RSub(p.kwh_per_employee, RMul(Rat(75, 100), Rat(sector_average, 1))),
         RMul(Rat(p.employees, 1), p.cost_per_kwh))

\* improvement_potential * annual_kwh / kwh_per_employee * cost_per_kwh; the
\* factors after improvement_potential are multiplied first, which gives the
\* same exact value as the left-to-right evaluation
savings_potential(p, efficiency_analysis) ==
    LET improvement_potential ==
            RMul(RSub(efficiency_analysis.efficiency_ratio, Rat(75, 100)),
                 p.kwh_per_employee)
    IN RMul(improvement_potential,
            RMul(RDiv(Rat(p.annual_kwh, 1), p.kwh_per_employee), p.cost_per_kwh))

\* the main content area for a stored profile
analysis_view(p) ==
    LET efficiency_analysis ==
            get_sector_efficiency_rank(REAL_ENERGY_INTENSITIES,
                                       p.kwh_per_employee, p.sector)
        sector_average  == Lookup(REAL_ENERGY_INTENSITIES, p.sector).kwh
        tier_average_ct == get_pricing_tier(REAL_PRICING_TIERS, p.annual_kwh).price_ct_kwh
        user_price_ct   == RMul(p.cost_per_kwh, Rat(100, 1))
        price_diff_pct  ==
            RMul(RDiv(RSub(user_price_ct, tier_average_ct), tier_average_ct),
                 Rat(100, 1))
        opportunity     ==
            efficiency_analysis.performance \notin {"Excellent", "Very Good", "Good"}
    IN [view             |-> "analysis",
        profile          |-> p,
        sector_average   |-> sector_average,
        vs_sector        |->
            RMul(RDiv(RSub(p.kwh_per_employee, Rat(sector_average, 1)),
                      Rat(sector_average, 1)), Rat(100, 1)),
        user_price_ct    |-> user_price_ct,
        price_diff_pct   |-> price_diff_pct,
        efficiency_class |-> efficiency_analysis.percentile,
        performance      |-> efficiency_analysis.performance,
        insight          |->
            IF efficiency_analysis.performance \in {"Excellent", "Very Good"}
            THEN "Outstanding Energy Efficiency"
            ELSE IF efficiency_analysis.performance = "Good"
            THEN "Good Performance"
            ELSE "Energy Efficiency Opportunity",
        target           |-> IF opportunity
                             THEN TruncInt(RMul(Rat(sector_average, 1), Rat(75, 100)))
                             ELSE None,
        savings_potential |-> IF opportunity
                              THEN savings_potential(p, efficiency_analysis)
                              ELSE None,
        pricing_insight  |->
            IF RLt(price_diff_pct, Rat(-5, 1)) THEN "Excellent Pricing"
            ELSE IF RGt(price_diff_pct, Rat(10, 1)) THEN "High Pricing"
            ELSE "Market Rate Pricing"]

welcome_screen == [view |-> "welcome"]

\* the main content area of a script run
main_content(state) ==
    IF state.analysis_result = None THEN welcome_screen
    ELSE analysis_view(state.analysis_result)

\* a script run after the sidebar input named field was set to value
edit_input(field, value) ==
    /\ program = "streamlit_app"
    /\ widgets' = sidebar([widgets EXCEPT ![field] = value])
    /\ session' = session
    /\ screen' = main_content(session')
    /\ UNCHANGED <<benchVars, fetchVars, fileVars, refVars>>

\* a script run after a click on "Run Energy Analysis"
run_energy_analysis ==
    /\ program = "streamlit_app"
    /\ widgets' = sidebar(widgets)
    /\ session' = [analysis_result |-> company_profile(widgets')]
    /\ screen' = main_content(session')
    /\ UNCHANGED <<benchVars, fetchVars, fileVars, refVars>>

\* a script run after a click on "Analyze Another Company", a button of the
\* analysis view: the result is cleared at the end of the run and st.rerun()
\* runs the script again
analyze_another_company ==
    /\ program = "streamlit_app"
    /\ screen.view = "analysis"
    /\ widgets' = sidebar(sidebar(widgets))
    /\ session' = [analysis_result |-> None]
    /\ screen' = main_content(session')
    /\ UNCHANGED <<benchVars, fetchVars, fileVars, refVars>>

\* the page is opened: analysis_result is not in the session state yet
InitApp ==
    /\ program = "streamlit_app"
    /\ df = <<>>
    /\ metadata = {}
    /\ pc = "loaded"
    /\ profile = NoProfile
    /\ peers = <<>>
    /\ benchmarks = NoBenchmarks
    /\ insights = <<>>
    /\ FetchIdle
    /\ FilesIdle
    /\ RefIdle
    /\ session = [analysis_result |-> None]
    /\ widgets = DefaultWidgets
    /\ screen = welcome_screen

NextApp ==
    \/ \E v \in SectorEdits : edit_input("sector", v)
    \/ \E v \in RegionEdits : edit_input("region", v)
    \/ \E v \in EmployeesEdits : edit_input("employees", v)
    \/ \E v \in AnnualKwhEdits : edit_input("annual_kwh", v)
    \/ \E v \in CostEdits : edit_input("cost_per_kwh", v)
    \/ run_energy_analysis
    \/ analyze_another_company

SpecApp == InitApp /\ [][NextApp]_vars


(***************************************************************************)
(* Properties of streamlit_app.py                                          *)
(***************************************************************************)
Stored == session.analysis_result

\* the stored profile holds the values the sidebar inputs w show
SnapshotOf(p, w) ==
    /\ p # None
    /\ p.sector = w.sector
    /\ p.region = w.region
    /\ p.employees = w.employees
    /\ p.annual_kwh = w.annual_kwh
    /\ p.cost_per_kwh = w.cost_per_kwh
    /\ p.kwh_per_employee = Rat(w.annual_kwh, w.employees)
    /\ p.annual_cost = RMul(Rat(w.annual_kwh, 1), w.cost_per_kwh)

\* C22: the stored analysis profile is initially absent and the welcome
\* screen is shown; the analysis view is shown iff a profile is stored; the
\* stored profile changes only by a click on 'Run Energy Analysis' (it becomes
\* a snapshot of the current sidebar inputs) or on 'Analyze Another Company'
\* (it is cleared and the welcome screen returns); editing sidebar inputs
\* leaves the stored profile and the displayed analysis unchanged.
C22_SessionFlow ==
    /\ (Stored = None /\ screen = welcome_screen)
    /\ [](screen.view = "analysis" <=> Stored # None)
    /\ [](screen.view = "welcome" <=> Stored = None)
    /\ [](Stored # None => screen.profile = Stored)
    /\ [][session' # session =>
             \/ SnapshotOf(session'.analysis_result, widgets) /\ widgets' = widgets
             \/ /\ screen.view = "analysis"
                /\ session'.analysis_result = None
                /\ screen' = welcome_screen]_vars
    /\ [][widgets' # widgets => session' = session /\ screen' = screen]_vars

\* an analysis is on the screen while the sidebar shows other values than
\* the stored ones
C22_Witness ==
    /\ program = "streamlit_app"
    /\ screen.view = "analysis"
    /\ Stored.annual_kwh # widgets.annual_kwh
    /\ Stored.cost_per_kwh # widgets.cost_per_kwh
    /\ Stored.sector # widgets.sector
    /\ Stored.cost_per_kwh # real_cost_per_kwh(Stored.annual_kwh)

\* C23: when the efficiency class is 'Needs Improvement' or 'Poor', the
\* 'Potential Savings' figure shown for reaching the target (kWh/employee <=
\* 0.75 * sector average) equals the annual cost of the consumption above
\* that target: (kwh_per_employee - 0.75 * sector_average) * employees *
\* cost_per_kwh.
C23_SavingsAboveTarget ==
    (screen.view = "analysis" /\ screen.performance \in {"Needs Improvement", "Poor"})
        => screen.savings_potential
              = savings_above_target(screen.profile, screen.sector_average)


(***************************************************************************)
(* The frame of benchmark_company                                          *)
(***************************************************************************)
ProfileKeys == {"sector", "region", "employees", "annual_kwh", "cost_per_kwh"}

====
